---- MODULE Spec2Model ----
(***************************************************************************)
(* A model of src/src/highdicom/seg/sop.py: the Segmentation encoder       *)
(* (Segmentation.__init__ and its helpers), the decode constructor         *)
(* (Segmentation.from_dataset, _build_luts), the frame index               *)
(* (_SegDBManager) and the mask reconstruction queries                     *)
(* (get_pixels_by_*, _get_pixels_by_seg_frame).                            *)
(*                                                                         *)
(* Conventions of the model                                                *)
(*  - A frame is one row high and Columns wide: a plane is a function      *)
(*    1..Columns -> value.  A 4D array is a function over <<p, c, s>>,     *)
(*    a 3D (or promoted 2D) array a function over <<p, c>>.                *)
(*  - A floating-point pixel is held as a number of halves: 0 is 0.0,      *)
(*    1 is 0.5, 2 is 1.0 and 3 is 1.5.  Integer and boolean pixels are     *)
(*    held as themselves (True is 1).                                      *)
(*  - A SOP instance UID is a positive integer; source image i of a        *)
(*    series has UID i, a multi-frame source image has UID 1.              *)
(*  - Python exceptions are strings naming the exception class.            *)
(*  - Only the patient coordinate system with a frame of reference and     *)
(*    an uncompressed transfer syntax are modelled on the encode path.     *)
(***************************************************************************)
EXTENDS Integers, Sequences, FiniteSets, TLC

\* ------------------------------------------------------------------ bounds
MaxPlanes == 2
MaxSegments == 2
Columns == 2
MaxSetPixels == 2
MaxQueries == 2
MaxScans == 1
MaxPixels == 4

\* ------------------------------------------------------- program constants
NO_FRAME_REF_VALUE == -1
MaxFractionalLimit == 256
PadByte == 48

\* ----------------------------------------------------------------- helpers
Range(s) == {s[i] : i \in DOMAIN s}

Max(S) == CHOOSE x \in S : \A y \in S : y <= x

Min(S) == CHOOSE x \in S : \A y \in S : x <= y

RECURSIVE SortedSeq(_)
SortedSeq(S) == IF S = {} THEN <<>> ELSE <<Min(S)>> \o SortedSeq(S \ {Min(S)})

RECURSIVE Pow2(_)
Pow2(n) == IF n = 0 THEN 1 ELSE 2 * Pow2(n - 1)

RECURSIVE Flatten(_)
Flatten(ss) == IF ss = <<>> THEN <<>> ELSE Head(ss) \o Flatten(Tail(ss))

HasDuplicates(s) == \E i, j \in DOMAIN s : i < j /\ s[i] = s[j]

OneToN(n) == [i \in 1..n |-> i]

Cols == 1..Columns

\* ------------------------------------------------- unsigned-width selector
get_unsigned_dtype(max_val) ==
    IF max_val < 256 THEN "uint8"
    ELSE IF max_val < 65536 THEN "uint16"
    ELSE "uint32"

\* The same selector for a Python integer of any size, written as the two
\* digits [hi, lo] of hi * 65536 + lo (0 <= lo < 65536).
get_unsigned_dtype_of(max_val) ==
    IF max_val.hi = 0 /\ max_val.lo < 256 THEN "uint8"
    ELSE IF max_val.hi = 0 THEN "uint16"
    ELSE "uint32"

\* ------------------------------------------------------ input pixel arrays
\* pa = [ndim, dtype, np, ns, val]: np is shape[0] (1 for a 2D array), ns is
\* the size of the segment axis of a 4D array (0 otherwise).
Cells(ndim, np, ns) ==
    IF ndim = 4 THEN (1..np) \X Cols \X (1..ns) ELSE (1..np) \X Cols

PaCells(pa) == Cells(pa.ndim, pa.np, pa.ns)

IsFloat(pa) == pa.dtype = "float"

\* shape[-1] of the array seen by _check_and_cast_pixel_array (ndim 3 or 4)
ShapeLast(pa) == IF pa.ndim = 4 THEN pa.ns ELSE Columns

\* the groups summed by pixel_array.sum(axis=-1): the segment axis of a 4D
\* array, the column axis of a 3D array
LastAxisGroups(pa) ==
    IF pa.ndim = 4
    THEN {{<<p, c, s>> : s \in 1..pa.ns} : p \in 1..pa.np, c \in Cols}
    ELSE {{<<p, c>> : c \in Cols} : p \in 1..pa.np}

RECURSIVE SumOver(_, _)
SumOver(f, D) ==
    IF D = {} THEN 0
    ELSE LET x == CHOOSE y \in D : TRUE IN f[x] + SumOver(f, D \ {x})

\* float -> uint8 by astype: truncation toward zero of a number of halves
FloatToUint8(h) == h \div 2

\* np.any(pixel_array[p]) : some non-zero value in plane p
PlaneAny(pa, p) == \E x \in PaCells(pa) : x[1] = p /\ pa.val[x] # 0

\* ---------------------------------------------- _check_segment_numbers
check_segment_numbers(nums) ==
    IF ~(\A i \in 1..(Len(nums) - 1) : nums[i + 1] - nums[i] = 1)
    THEN "ValueError"
    ELSE IF Len(nums) = 0 THEN "IndexError"
    ELSE IF nums[1] # 1 THEN "ValueError"
    ELSE "ok"

\* ------------------------------------------ _check_and_cast_pixel_array
\* a classification that never sums over the segment axis
overlap_never_summed(pa, number_of_segments) ==
    IF Max({pa.val[x] : x \in PaCells(pa)}) > (IF pa.ndim = 3 THEN number_of_segments ELSE 1)
    THEN "ValueError" ELSE "NO"

\* an integer branch that takes every label of a label map as described
overlap_without_description_check(pa, number_of_segments) ==
    IF pa.ndim = 3 THEN "NO"
    ELSE IF Max({pa.val[x] : x \in PaCells(pa)}) > 1 THEN "ValueError"
    ELSE IF \E g \in LastAxisGroups(pa) : SumOver(pa.val, g) > 1
         THEN "YES" ELSE "NO"

\* the overlap value of the integer / boolean branch
overlap_of_int_array(pa, number_of_segments) ==
    LET max_pixel == Max({pa.val[x] : x \in PaCells(pa)})
    IN  IF pa.ndim = 3
        THEN IF max_pixel > number_of_segments THEN "ValueError" ELSE "NO"
        ELSE IF max_pixel > 1 THEN "ValueError"
        ELSE IF max_pixel = 0 THEN "NO"
        ELSE IF ShapeLast(pa) = 1 THEN "NO"
        ELSE IF \E g \in LastAxisGroups(pa) : SumOver(pa.val, g) > 1
             THEN "YES" ELSE "NO"

\* a floating-point branch that looks at the values, not at the type, before
\* it answers UNDEFINED
overlap_of_float_array_by_value(pa, segmentation_type) ==
    IF Min({pa.val[x] : x \in PaCells(pa)}) < 0 \/ Max({pa.val[x] : x \in PaCells(pa)}) > 2
    THEN "ValueError"
    ELSE IF \E x \in PaCells(pa) : pa.val[x] = 1
    THEN (IF segmentation_type \in {"BINARY", "LABELMAP"} THEN "ValueError"
          ELSE IF pa.ndim = 3 \/ ShapeLast(pa) = 1 THEN "NO" ELSE "UNDEFINED")
    ELSE IF \A x \in PaCells(pa) : pa.val[x] = 0 THEN "NO"
    ELSE IF ShapeLast(pa) = 1 THEN "NO"
    ELSE IF \E g \in LastAxisGroups(pa) : SumOver(pa.val, g) > 2
         THEN "YES" ELSE "NO"

\* the overlap value of the floating-point branch (values in halves)
overlap_of_float_array(pa, segmentation_type) ==
    LET unique_values == {pa.val[x] : x \in PaCells(pa)}
        cast == [x \in PaCells(pa) |-> FloatToUint8(pa.val[x])]
    IN  IF Min(unique_values) < 0 \/ Max(unique_values) > 2 THEN "ValueError"
        ELSE IF segmentation_type \in {"BINARY", "LABELMAP"}
        THEN IF \E v \in unique_values : v > 0 /\ v < 2 THEN "ValueError"
             ELSE IF unique_values = {0} THEN "NO"
             ELSE IF ShapeLast(pa) = 1 THEN "NO"
             ELSE IF Max({SumOver(cast, g) : g \in LastAxisGroups(pa)}) > 1
                  THEN "YES" ELSE "NO"
        ELSE IF pa.ndim = 3 \/ ShapeLast(pa) = 1 THEN "NO"
        ELSE "UNDEFINED"

\* the array after the cast of the BINARY / LABELMAP float branch
cast_pixel_array(pa, segmentation_type) ==
    IF IsFloat(pa) /\ segmentation_type \in {"BINARY", "LABELMAP"}
    THEN [pa EXCEPT !.dtype = "uint8",
                    !.val = [x \in PaCells(pa) |-> FloatToUint8(pa.val[x])]]
    ELSE pa

\* an end of the check that lets overlapping segments through
check_and_cast_result_allowing_overlap(pa, segmentation_type, ov) ==
    IF ov = "ValueError"
    THEN [err |-> "ValueError", pa |-> pa, overlap |-> "NONE"]
    ELSE [err |-> "ok", pa |-> cast_pixel_array(pa, segmentation_type),
          overlap |-> ov]

\* the end of _check_and_cast_pixel_array, given the overlap value ov of
\* the branch taken
check_and_cast_result(pa, segmentation_type, ov) ==
    IF ov = "ValueError" \/ (segmentation_type = "LABELMAP" /\ ov = "YES")
    THEN [err |-> "ValueError", pa |-> pa, overlap |-> "NONE"]
    ELSE [err |-> "ok", pa |-> cast_pixel_array(pa, segmentation_type),
          overlap |-> ov]

\* returns [err, pa, overlap]
check_and_cast_pixel_array(pa, number_of_segments, segmentation_type) ==
    IF pa.ndim = 4 /\ pa.ns # number_of_segments
    THEN [err |-> "ValueError", pa |-> pa, overlap |-> "NONE"]
    ELSE IF pa.dtype \notin {"bool", "uint8", "float"}
    THEN [err |-> "TypeError", pa |-> pa, overlap |-> "NONE"]
    ELSE check_and_cast_result(pa, segmentation_type,
            IF IsFloat(pa)
            THEN overlap_of_float_array(pa, segmentation_type)
            ELSE overlap_of_int_array(pa, number_of_segments))

\* --------------------------------------------------- _get_segment_array
\* np.around of k halves (round half to even)
AroundHalves(k) ==
    IF k % 2 = 0 THEN k \div 2
    ELSE LET f == (k - 1) \div 2 IN IF f % 2 = 0 THEN f ELSE f + 1

\* astype(np.uint8) of a non-negative whole floating-point value: a value that
\* does not fit is outside what C defines; builds wrap or saturate
FloatAsUint8(v, cast_mode) ==
    IF v < 256 THEN v ELSE IF cast_mode = "wrap" THEN v % 256 ELSE 255

\* the array of one segment, a function over <<p, c>>
get_segment_array(pa, segment_number, number_of_segments, segmentation_type, max_fractional_value, cast_mode) ==
    [x \in (1..pa.np) \X Cols |->
        LET v == IF pa.ndim = 4
                 THEN pa.val[<<x[1], x[2], segment_number>>]
                 ELSE pa.val[x]
        IN  IF IsFloat(pa)
            THEN FloatAsUint8(AroundHalves(v * max_fractional_value), cast_mode)
            ELSE LET b == IF pa.ndim = 3 /\ number_of_segments # 1
                          THEN (IF v = segment_number THEN 1 ELSE 0)
                          ELSE v
                 IN  IF segmentation_type = "FRACTIONAL"
                        /\ max_fractional_value # 1
                     THEN (b * max_fractional_value) % 256
                     ELSE b]

\* The values of the caller's array when the constructor is left, o being
\* the constructor's outcome.  check_and_cast_pixel_array hands an unsigned
\* 8-bit array on as it is, _get_segment_array takes the array itself (one
\* segment) or a view of it (a 4D stack) as segment_array, and
\* "segment_array *= int(max_fractional_value)" works in place.
pixel_array_after(in, o) ==
    IF /\ o.at \in {"concatenate", "build_luts", "done"}
       /\ in.pa.dtype = "uint8"
       /\ in.segType = "FRACTIONAL" /\ in.maxFrac # 1
       /\ (in.pa.ndim = 4 \/ Len(in.segNums) = 1)
    THEN [x \in PaCells(in.pa) |-> (in.pa.val[x] * in.maxFrac) % 256]
    ELSE in.pa.val

\* ---------------------------------------------------- _omit_empty_frames
\* the result of _omit_empty_frames given the indices keep of the planes
\* that hold a non-zero pixel
omitted(plane_positions, keep) ==
    IF Len(keep) = 0
    THEN [plane_positions |-> plane_positions,
          source_image_indices |-> OneToN(Len(plane_positions)),
          is_empty |-> TRUE]
    ELSE [plane_positions |-> [k \in 1..Len(keep) |-> plane_positions[keep[k]]],
          source_image_indices |-> keep,
          is_empty |-> FALSE]

\* returns [plane_positions, source_image_indices, is_empty]; indices are
\* 1-based in the model
omit_empty_frames(pa, plane_positions) ==
    omitted(plane_positions,
            SelectSeq(OneToN(Min({pa.np, Len(plane_positions)})),
                      LAMBDA i : PlaneAny(pa, i)))

\* np.unique(values, return_index=True)[1]: for each distinct value in
\* ascending order, the index of its first occurrence
UniqueFirstIndex(vals) ==
    LET sorted == SortedSeq(Range(vals))
    IN  [k \in 1..Len(sorted) |->
            Min({i \in DOMAIN vals : vals[i] = sorted[k]})]

\* _get_dimension_index_values (patient coordinate system): the 1-based rank
\* of the plane's position among the distinct positions
get_dimension_index_values(plane_index, plane_position_values) ==
    << 1 + Cardinality({v \in Range(plane_position_values) :
                            v < plane_position_values[plane_index]}) >>

\* _get_pffg_item for a segment frame (segment_number is not None)
get_pffg_item(segment_number, index_values, plane_position, source_image_index, are_spatial_locations_preserved, is_multiframe) ==
    [seg |-> segment_number,
     DimensionIndexValues |-> <<segment_number>> \o index_values,
     PlanePositionSequence |-> plane_position,
     refs |-> IF are_spatial_locations_preserved
              THEN << [uid |-> IF is_multiframe THEN 1 ELSE source_image_index,
                       frames |-> IF is_multiframe
                                  THEN <<source_image_index>> ELSE <<>>,
                       slp |-> "YES"] >>
              ELSE <<>>]

\* --------------------------------------------------------- _encode_pixels
\* bit packing with the first pixel in the most significant bit
pack_bits_msb_first(bits) ==
    LET n == Len(bits)
        nb == (n + 7) \div 8
        bit(i) == IF i <= n THEN bits[i] ELSE 0
        bytes == [j \in 1..nb |->
                    SumOver([k \in 0..7 |-> bit(8 * (j - 1) + k + 1) * Pow2(7 - k)],
                            0..7)]
    IN  IF nb % 2 = 1 THEN Append(bytes, 0) ELSE bytes

\* pydicom's pack_bits (little bit order, padded to an even number of bytes)
pack_bits(bits) ==
    LET n == Len(bits)
        nb == (n + 7) \div 8
        bit(i) == IF i <= n THEN bits[i] ELSE 0
        bytes == [j \in 1..nb |->
                    SumOver([k \in 0..7 |-> bit(8 * (j - 1) + k + 1) * Pow2(k)],
                            0..7)]
    IN  IF nb % 2 = 1 THEN Append(bytes, 0) ELSE bytes

encode_pixels(segmentation_type, planes) ==
    IF segmentation_type = "BINARY" THEN pack_bits(planes) ELSE planes

\* the trailing byte added by the constructor
pad_pixel_data(data) ==
    IF Len(data) % 2 = 1 THEN Append(data, PadByte) ELSE data

\* Dataset.pixel_array of the finished object: the stored frames decoded
\* from PixelData, a sequence of planes (functions over Cols); two
\* dimensional when there is a single frame
stored_frames(ds) ==
    LET px(i) == IF ds.SegmentationType = "BINARY"
                 THEN (ds.PixelData[((i - 1) \div 8) + 1]
                            \div Pow2((i - 1) % 8)) % 2
                 ELSE ds.PixelData[i]
    IN  [f \in 1..ds.NumberOfFrames |->
            [c \in Cols |-> px((f - 1) * Columns + c)]]

pixel_array_ndim(ds) == IF ds.NumberOfFrames = 1 THEN 2 ELSE 3

\* ------------------------------------------------------------ _build_luts
\* A dataset ds is a record
\*   [SegmentSequence, SegmentationType, MaximumFractionalValue,
\*    SegmentsOverlap, NumberOfFrames, DimensionIndexSequence, PerFrame,
\*    PixelData, Referenced]
\* PerFrame[i] = [seg, DimensionIndexValues, refs]; a ref is
\* [uid, frames, slp] with frames the ReferencedFrameNumber values (empty
\* when the attribute is absent) and slp in {"YES", "NO", "ABSENT"}.
\* Referenced is the list of SOP instance UIDs of _get_ref_instance_uids.
SegNumPointer == "ReferencedSegmentNumber"

dim_ind_pointers(ds) ==
    SelectSeq(ds.DimensionIndexSequence, LAMBDA t : t # SegNumPointer)

\* position (1-based) of a pointer in the DimensionIndexSequence
dim_ind_position(ds, ptr) ==
    Min({i \in DOMAIN ds.DimensionIndexSequence :
            ds.DimensionIndexSequence[i] = ptr})

frame_source_instances(item) == [k \in DOMAIN item.refs |-> item.refs[k].uid]

frame_source_frames(item) ==
    Flatten([k \in DOMAIN item.refs |->
                IF item.refs[k].frames = <<>>
                THEN <<NO_FRAME_REF_VALUE>>
                ELSE item.refs[k].frames])

\* the frame has exactly one source instance and one source frame
has_single_source(item) ==
    /\ Cardinality(Range(frame_source_instances(item))) = 1
    /\ Cardinality(Range(frame_source_frames(item))) = 1

\* what the loop over the per-frame items raises at one item, if anything
frame_item_error(ds, item) ==
    IF Len(item.DimensionIndexValues) # Len(dim_ind_pointers(ds)) + 1
    THEN "RuntimeError"
    ELSE IF has_single_source(item)
            /\ frame_source_instances(item)[1] \notin Range(ds.Referenced)
    THEN "AttributeError"
    ELSE "ok"

\* a summary that takes a missing flag for YES
locations_preserved_unless_no(ds) ==
    IF \E i \in DOMAIN ds.PerFrame : \E k \in DOMAIN ds.PerFrame[i].refs :
            ds.PerFrame[i].refs[k].slp = "NO"
    THEN "NO" ELSE "YES"

\* the summary of the SpatialLocationsPreserved flags of all references
locations_preserved_of(ds) ==
    LET flags == Flatten([i \in DOMAIN ds.PerFrame |->
                    [k \in DOMAIN ds.PerFrame[i].refs |->
                        ds.PerFrame[i].refs[k].slp]])
    IN  IF \E k \in DOMAIN flags : flags[k] = "NO" THEN "NO"
        ELSE IF \A k \in DOMAIN flags : flags[k] = "YES" THEN "YES"
        ELSE "NONE"

\* _SegDBManager.__init__: the InstanceUIDs table and the FrameLUT table
SegDBManager(referenced_uids, ds, single) ==
    [InstanceUIDs |-> Range(referenced_uids),
     number_of_frames |-> Len(ds.PerFrame),
     has_source_columns |-> single,
     FrameLUT |->
        [i \in DOMAIN ds.PerFrame |->
            [FrameNumber |-> i,
             SegmentNumber |-> ds.PerFrame[i].seg,
             DimensionIndexValues |->
                [k \in DOMAIN dim_ind_pointers(ds) |->
                    ds.PerFrame[i].DimensionIndexValues[
                        dim_ind_position(ds, dim_ind_pointers(ds)[k])]],
             ReferencedFrameNumber |->
                IF single THEN frame_source_frames(ds.PerFrame[i])[1]
                ELSE NO_FRAME_REF_VALUE,
             ReferencedSOPInstanceUID |->
                IF single THEN frame_source_instances(ds.PerFrame[i])[1]
                ELSE 0]],
     temp |-> {}]

NoDB == [InstanceUIDs |-> {}, number_of_frames |-> 0, has_source_columns |-> FALSE, FrameLUT |-> <<>>, temp |-> {}]

\* returns [err, single, locations_preserved, db]
build_luts(ds) ==
    LET bad == {i \in DOMAIN ds.PerFrame :
                    frame_item_error(ds, ds.PerFrame[i]) # "ok"}
        single == \A i \in DOMAIN ds.PerFrame : has_single_source(ds.PerFrame[i])
        fail(e) == [err |-> e, single |-> FALSE,
                    locations_preserved |-> "NONE", db |-> NoDB]
    IN  IF bad # {} THEN fail(frame_item_error(ds, ds.PerFrame[Min(bad)]))
        ELSE IF HasDuplicates(ds.Referenced) THEN fail("IntegrityError")
        ELSE [err |-> "ok", single |-> single,
              locations_preserved |-> locations_preserved_of(ds),
              db |-> SegDBManager(ds.Referenced, ds, single)]

\* ------------------------------------------------- Segmentation.__init__
\* The arguments of the constructor, a record
\*   [nsrc, multiframe, srcPos, planePosGiven, planePos, sameOrientation,
\*    segNums, pa, segType, maxFrac, omit, castMode]
\* nsrc source planes (single-frame images of a series, or the frames of one
\* multi-frame image) at positions srcPos; planePos is the plane_positions
\* argument when planePosGiven; segNums are the numbers of the segment
\* descriptions; castMode is the build's float -> uint8 behaviour.
NoDS == [SegmentSequence |-> <<>>, SegmentationType |-> "NONE", MaximumFractionalValue |-> 0, SegmentsOverlap |-> "NONE", NumberOfFrames |-> 0, DimensionIndexSequence |-> <<>>, PerFrame |-> <<>>, PixelData |-> <<>>, Referenced |-> <<>>]

\* SegmentsOverlap is the attribute as last assigned on self, "NONE" before
CtorFail(e, where) == [err |-> e, at |-> where, ds |-> NoDS, single |-> FALSE, locations_preserved |-> "NONE", db |-> NoDB, SegmentsOverlap |-> "NONE"]

\* a comparison of the positions that leaves the orientation out
spatial_locations_preserved_by_position(plane_positions, source_plane_positions, same_orientation) ==
    IF \E i \in DOMAIN plane_positions :
            i <= Len(source_plane_positions)
                /\ plane_positions[i] # source_plane_positions[i]
    THEN "NO"
    ELSE IF Len(plane_positions) > Len(source_plane_positions) THEN "IndexError"
    ELSE "YES"

\* are_spatial_locations_preserved; "IndexError" when the comparison runs
\* past the source positions
spatial_locations_preserved(plane_positions, source_plane_positions, same_orientation) ==
    LET n == Len(source_plane_positions)
    IN  IF \E i \in DOMAIN plane_positions :
                i <= n /\ plane_positions[i] # source_plane_positions[i]
        THEN "NO"
        ELSE IF Len(plane_positions) > n THEN "IndexError"
        ELSE IF same_orientation THEN "YES" ELSE "NO"

\* Failure of the constructor after self.SegmentsOverlap was assigned
CtorLate(e, where, overlap) == [CtorFail(e, where) EXCEPT !.SegmentsOverlap = overlap]

\* The constructor is written as a chain of steps, each receiving the values
\* computed before it.

\* the candidate frames in loop order: for each segment, for each plane in
\* plane_sort_index
frame_candidates(segNums, plane_sort_index) ==
    [j \in 1..(Len(segNums) * Len(plane_sort_index)) |->
        [sn |-> segNums[((j - 1) \div Len(plane_sort_index)) + 1],
         plane_index |-> plane_sort_index[((j - 1) % Len(plane_sort_index)) + 1]]]

\* segment_array[source_image_index], the pixels of one frame
frame_plane(in, pa, sn, source_image_index) ==
    [c \in Cols |->
        get_segment_array(pa, sn, Len(in.segNums), in.segType, in.maxFrac,
                          in.castMode)[<<source_image_index, c>>]]

\* the frames appended to the object: [item, plane]
frames_of_kept(in, pa, preserved, source_image_indices, plane_position_values, kept) ==
    [j \in DOMAIN kept |->
        [item |-> get_pffg_item(
                    kept[j].sn,
                    get_dimension_index_values(kept[j].plane_index,
                                               plane_position_values),
                    plane_position_values[kept[j].plane_index],
                    source_image_indices[kept[j].plane_index],
                    preserved, in.multiframe),
         plane |-> frame_plane(in, pa, kept[j].sn,
                               source_image_indices[kept[j].plane_index])]]

\* the loop skips a frame when omission is on and the frame is empty
frames_of_candidates(in, pa, preserved, omit, source_image_indices, plane_position_values, cand) ==
    frames_of_kept(in, pa, preserved, source_image_indices, plane_position_values,
        SelectSeq(cand, LAMBDA cnd :
            ~(omit /\ \A c \in Cols :
                frame_plane(in, pa, cnd.sn,
                            source_image_indices[cnd.plane_index])[c] = 0)))

frames_in_order(in, pa, preserved, omit, source_image_indices, plane_position_values) ==
    frames_of_candidates(in, pa, preserved, omit, source_image_indices,
        plane_position_values,
        frame_candidates(in.segNums, UniqueFirstIndex(plane_position_values)))

frames_of_planes(in, pa, plane_positions, preserved, om) ==
    frames_in_order(in, pa, preserved, in.omit /\ ~om.is_empty,
        om.source_image_indices,
        [k \in DOMAIN om.source_image_indices |->
            plane_positions[om.source_image_indices[k]]])

\* the per-frame loop of the constructor: the frames in stored order
encode_frames(in, pa, plane_positions, preserved) ==
    frames_of_planes(in, pa, plane_positions, preserved,
        IF in.omit THEN omit_empty_frames(pa, plane_positions)
        ELSE [plane_positions |-> plane_positions,
              source_image_indices |-> OneToN(pa.np),
              is_empty |-> FALSE])

\* the dataset written by the constructor
dataset_of(in, overlap, frames) ==
    [SegmentSequence |-> in.segNums,
     SegmentationType |-> in.segType,
     MaximumFractionalValue |->
        IF in.segType = "FRACTIONAL" THEN in.maxFrac ELSE 0,
     SegmentsOverlap |-> overlap,
     NumberOfFrames |-> Len(frames),
     DimensionIndexSequence |-> <<SegNumPointer, "ImagePositionPatient">>,
     PerFrame |-> [j \in DOMAIN frames |-> frames[j].item],
     PixelData |->
        pad_pixel_data(encode_pixels(in.segType,
            Flatten([j \in DOMAIN frames |->
                        [c \in Cols |-> frames[j].plane[c]]]))),
     Referenced |-> IF in.multiframe THEN <<1>> ELSE OneToN(in.nsrc)]

encode_finish(ds, luts) ==
    IF luts.err # "ok" THEN CtorLate(luts.err, "build_luts", ds.SegmentsOverlap)
    ELSE [err |-> "ok", at |-> "done", ds |-> ds, single |-> luts.single,
          locations_preserved |-> luts.locations_preserved, db |-> luts.db,
          SegmentsOverlap |-> ds.SegmentsOverlap]

encode_indexed(ds) == encode_finish(ds, build_luts(ds))

encode_built(in, overlap, frames) ==
    IF Len(frames) = 0 THEN CtorLate("ValueError", "concatenate", overlap)
    ELSE encode_indexed(dataset_of(in, overlap, frames))

encode_placed(in, cc, plane_positions, slp) ==
    IF slp = "IndexError"
    THEN CtorLate("IndexError", "plane_positions", cc.overlap)
    ELSE IF in.segType = "LABELMAP"
    THEN CtorLate("UnboundLocalError", "get_pffg_item", cc.overlap)
    ELSE encode_built(in, cc.overlap,
            encode_frames(in, cc.pa, plane_positions, slp = "YES"))

encode_checked(in, csn, cc, plane_positions) ==
    IF csn # "ok" THEN CtorFail(csn, "check_segment_numbers")
    ELSE IF cc.err # "ok" THEN CtorFail(cc.err, "check_and_cast_pixel_array")
    ELSE IF in.segType = "LABELMAP" /\ cc.pa.ndim = 4
    THEN CtorLate("NameError", "combine_segments", cc.overlap)
    ELSE IF cc.pa.np # Len(plane_positions)
    THEN CtorLate("ValueError", "plane_positions", cc.overlap)
    ELSE encode_placed(in, cc, plane_positions,
            spatial_locations_preserved(plane_positions, in.srcPos,
                                        in.sameOrientation))

\* the constructor: [err, at, ds, single, locations_preserved, db,
\* SegmentsOverlap]
Encode(in) ==
    IF in.segType = "FRACTIONAL" /\ in.maxFrac > MaxFractionalLimit
    THEN CtorFail("ValueError", "max_fractional_value")
    ELSE encode_checked(in,
            check_segment_numbers(in.segNums),
            check_and_cast_pixel_array(
                IF in.pa.ndim = 2 THEN [in.pa EXCEPT !.ndim = 3] ELSE in.pa,
                Len(in.segNums), in.segType),
            IF in.planePosGiven THEN in.planePos ELSE in.srcPos)

\* ------------------------------------------------------- the frame index
\* An object o is [ds, single, locations_preserved, db]: the dataset, the
\* private attributes _single_source_frame_per_seg_frame and
\* _locations_preserved, and the database manager _db_man.
number_of_segments_of(o) == Len(o.ds.SegmentSequence)

\* a count of the groups that leaves the segment number out of the key
dimension_indices_unique_ignoring_segment(db, pointer_positions) ==
    Cardinality({ [k \in DOMAIN pointer_positions |->
                        db.FrameLUT[i].DimensionIndexValues[pointer_positions[k]]]
                  : i \in DOMAIN db.FrameLUT }) = db.number_of_frames

\* _SegDBManager.are_dimension_indices_unique; pointers are positions in
\* _dim_ind_pointers (1-based)
db_are_dimension_indices_unique(db, pointer_positions) ==
    Cardinality({ <<db.FrameLUT[i].SegmentNumber,
                    [k \in DOMAIN pointer_positions |->
                        db.FrameLUT[i].DimensionIndexValues[pointer_positions[k]]]>>
                  : i \in DOMAIN db.FrameLUT }) = db.number_of_frames

are_referenced_sop_instances_unique(db) ==
    Cardinality({ <<db.FrameLUT[i].ReferencedSOPInstanceUID,
                    db.FrameLUT[i].SegmentNumber>> : i \in DOMAIN db.FrameLUT })
        = db.number_of_frames

are_referenced_frames_unique(db) ==
    Cardinality({ <<db.FrameLUT[i].ReferencedFrameNumber,
                    db.FrameLUT[i].SegmentNumber>> : i \in DOMAIN db.FrameLUT })
        = db.number_of_frames

\* an index in which every UID counts as referenced
every_uid_referenced(db) == 1..(MaxPlanes + 1)

get_unique_sop_instance_uids(db) == db.InstanceUIDs

\* output numbers that ignore the position in the request
temp_segment_rows_unrelabelled(segment_numbers, combine_segments, relabel) ==
    [i \in DOMAIN segment_numbers |->
        [SegmentNumber |-> segment_numbers[i],
         OutputSegmentNumber |->
            IF combine_segments THEN segment_numbers[i] ELSE i - 1]]

\* the rows of TemporarySegmentNumbers: [SegmentNumber, OutputSegmentNumber]
temp_segment_rows(segment_numbers, combine_segments, relabel) ==
    [i \in DOMAIN segment_numbers |->
        [SegmentNumber |-> segment_numbers[i],
         OutputSegmentNumber |->
            IF combine_segments
            THEN (IF relabel THEN i ELSE segment_numbers[i])
            ELSE i - 1]]

\* the join's rows in the order of the stored frames
RECURSIVE OrderByStoredFrame(_)
OrderByStoredFrame(S) ==
    IF S = {} THEN <<>>
    ELSE LET m == CHOOSE x \in S : \A y \in S :
                    \/ x.fi < y.fi
                    \/ (x.fi = y.fi /\ x.fo <= y.fo)
         IN  <<m>> \o OrderByStoredFrame(S \ {m})

\* ORDER BY OutputFrameIndex of the join's rows (ties by stored frame)
RECURSIVE OrderByOutputFrame(_)
OrderByOutputFrame(S) ==
    IF S = {} THEN <<>>
    ELSE LET m == CHOOSE x \in S : \A y \in S :
                    \/ x.fo < y.fo
                    \/ (x.fo = y.fo /\ x.fi <= y.fi)
         IN  <<m>> \o OrderByOutputFrame(S \ {m})

\* a database whose lookup rows are lost with the temporary tables
database_without_rows(db, temp) ==
    [db EXCEPT !.temp = temp, !.FrameLUT = <<>>, !.InstanceUIDs = {}]

\* the database after the statements of a query have run: CREATE TABLE,
\* INSERT and DROP TABLE name temporary tables only, the SELECT statements
\* read FrameLUT and InstanceUIDs
database_after(db, temp) == [db EXCEPT !.temp = temp]

\* The three iterate_indices_by_* context managers share one shape: create
\* the temporary key table, create TemporarySegmentNumbers, run the join.
\* keys are the requested keys in output order (keys_unique when the key
\* column is declared UNIQUE), row_keys[i] the key of FrameLUT row i.  Returns [err, temp, indices]: temp is the set of temporary
\* tables in the database when the block is entered (err = "ok") or when
\* the exception leaves the context manager.
iterate_indices(db, table_name, keys, keys_unique, row_keys, segment_numbers, combine_segments, relabel) ==
    LET segrows == temp_segment_rows(segment_numbers, combine_segments, relabel)
        rows == { [fo |-> k - 1, fi |-> db.FrameLUT[i].FrameNumber - 1,
                   seg_n |-> segrows[j].OutputSegmentNumber] :
                    <<k, i, j>> \in
                    { t \in (DOMAIN keys) \X (DOMAIN db.FrameLUT) \X (DOMAIN segrows) :
                        /\ keys[t[1]] = row_keys[t[2]]
                        /\ db.FrameLUT[t[2]].SegmentNumber
                                = segrows[t[3]].SegmentNumber } }
    IN  IF table_name \in db.temp
        THEN [err |-> "OperationalError", temp |-> db.temp, indices |-> <<>>]
        ELSE IF keys_unique /\ HasDuplicates(keys)
        THEN [err |-> "IntegrityError", temp |-> db.temp \cup {table_name},
              indices |-> <<>>]
        ELSE IF "TemporarySegmentNumbers" \in db.temp
        THEN [err |-> "OperationalError", temp |-> db.temp \cup {table_name},
              indices |-> <<>>]
        ELSE IF HasDuplicates(segment_numbers)
        THEN [err |-> "IntegrityError",
              temp |-> db.temp \cup {table_name, "TemporarySegmentNumbers"},
              indices |-> <<>>]
        ELSE [err |-> "ok",
              temp |-> db.temp \cup {table_name, "TemporarySegmentNumbers"},
              indices |-> OrderByOutputFrame(rows)]

\* --------------------------------------------- _get_pixels_by_seg_frame
\* Output data types are named as numpy names them; "None" is the absent
\* dtype argument.
dtype_kind(dtype) ==
    IF dtype \in {"uint8", "uint16", "uint32"} THEN "u"
    ELSE IF dtype = "int8" THEN "i"
    ELSE IF dtype = "float32" THEN "f"
    ELSE "b"

\* _check_numpy_value_representation: TRUE when max_val does not fit
check_numpy_value_representation(max_val, dtype) ==
    IF dtype = "uint8" THEN max_val > 255
    ELSE IF dtype = "int8" THEN max_val > 127
    ELSE IF dtype = "uint16" THEN max_val > 65535
    ELSE FALSE

\* assignment of a stored uint8 value into an array of the given dtype
cast_uint8_to(dtype, v) == IF dtype = "int8" /\ v > 127 THEN v - 256 ELSE v

\* An output array is [ndim, nf, ns, den, val]: val is a function over
\* <<fo, c>> (ndim 3) or <<fo, c, seg_n>> (ndim 4), 0-based in fo and seg_n
\* as in the code; the value of a pixel is val / den.
NoArray == [ndim |-> 0, nf |-> 0, ns |-> 0, den |-> 1, val |-> <<>>]

PixelsFail(e) == [err |-> e, out |-> NoArray]

\* a loop that never looks for pixels already written
RECURSIVE combine_loop_unchecked(_, _, _, _, _)
combine_loop_unchecked(out, pixel_array, indices, k, skip_overlap_checks) ==
    IF k > Len(indices) THEN [err |-> "ok", val |-> out]
    ELSE combine_loop_unchecked(
            [x \in DOMAIN out |->
                IF x[1] = indices[k].fo
                THEN Max({pixel_array[indices[k].fi + 1][x[2]] * indices[k].seg_n,
                          out[x]})
                ELSE out[x]],
            pixel_array, indices, k + 1, skip_overlap_checks)

\* a loop in which the frame written last replaces what was written before
RECURSIVE combine_loop_last_wins(_, _, _, _, _)
combine_loop_last_wins(out, pixel_array, indices, k, skip_overlap_checks) ==
    IF k > Len(indices) THEN [err |-> "ok", val |-> out]
    ELSE IF ~skip_overlap_checks
            /\ \E c \in Cols : pixel_array[indices[k].fi + 1][c] > 0
                                /\ out[<<indices[k].fo, c>>] > 0
    THEN [err |-> "RuntimeError", val |-> out]
    ELSE combine_loop_last_wins(
            [x \in DOMAIN out |->
                IF x[1] = indices[k].fo /\ pixel_array[indices[k].fi + 1][x[2]] > 0
                THEN pixel_array[indices[k].fi + 1][x[2]] * indices[k].seg_n
                ELSE out[x]],
            pixel_array, indices, k + 1, skip_overlap_checks)

\* the loop that builds a label map from the (fo, fi, seg_n) triplets
RECURSIVE combine_loop(_, _, _, _, _)
combine_loop(out, pixel_array, indices, k, skip_overlap_checks) ==
    IF k > Len(indices) THEN [err |-> "ok", val |-> out]
    ELSE IF ~skip_overlap_checks
            /\ \E c \in Cols : pixel_array[indices[k].fi + 1][c] > 0
                                /\ out[<<indices[k].fo, c>>] > 0
    THEN [err |-> "RuntimeError", val |-> out]
    ELSE combine_loop(
            [x \in DOMAIN out |->
                IF x[1] = indices[k].fo
                THEN Max({pixel_array[indices[k].fi + 1][x[2]] * indices[k].seg_n,
                          out[x]})
                ELSE out[x]],
            pixel_array, indices, k + 1, skip_overlap_checks)

combined_result(num_output_frames, comb) ==
    IF comb.err # "ok" THEN PixelsFail(comb.err)
    ELSE [err |-> "ok",
          out |-> [ndim |-> 3, nf |-> num_output_frames, ns |-> 0,
                   den |-> 1, val |-> comb.val]]

\* the branch combine_segments = True; stored is Dataset.pixel_array
combine_pixels(ds, num_output_frames, indices, rescale_fractional, skip_overlap_checks, stored) ==
    IF ds.SegmentationType = "FRACTIONAL" /\ ~rescale_fractional
    THEN PixelsFail("ValueError")
    ELSE IF ds.SegmentationType = "FRACTIONAL"
            /\ \E f \in DOMAIN stored, c \in Cols :
                    stored[f][c] \notin {0, ds.MaximumFractionalValue}
    THEN PixelsFail("ValueError")
    ELSE combined_result(num_output_frames,
            combine_loop(
                [x \in (0..(num_output_frames - 1)) \X Cols |-> 0],
                IF ds.SegmentationType = "FRACTIONAL"
                THEN [f \in DOMAIN stored |->
                        [c \in Cols |->
                            stored[f][c] \div ds.MaximumFractionalValue]]
                ELSE stored,
                indices, 1, skip_overlap_checks))

stacked_result(ds, num_output_frames, num_segments, rescale_fractional, stacked) ==
    IF rescale_fractional /\ ds.SegmentationType = "FRACTIONAL"
        /\ \E x \in DOMAIN stacked : stacked[x] > ds.MaximumFractionalValue
    THEN PixelsFail("RuntimeError")
    ELSE [err |-> "ok",
          out |-> [ndim |-> 4, nf |-> num_output_frames, ns |-> num_segments,
                   den |-> IF rescale_fractional
                              /\ ds.SegmentationType = "FRACTIONAL"
                           THEN ds.MaximumFractionalValue ELSE 1,
                   val |-> stacked]]

\* the value copied to out_array[fo, :, c, seg_n]: the last triplet that
\* addresses the cell, 0 when there is none
stacked_cell(indices, stored, intermediate_dtype, hits, c) ==
    IF hits = {} THEN 0
    ELSE cast_uint8_to(intermediate_dtype, stored[indices[Max(hits)].fi + 1][c])

\* the branch combine_segments = False
stack_pixels(ds, num_output_frames, indices, num_segments, rescale_fractional, intermediate_dtype, stored) ==
    stacked_result(ds, num_output_frames, num_segments, rescale_fractional,
        [x \in (0..(num_output_frames - 1)) \X Cols \X (0..(num_segments - 1)) |->
            stacked_cell(indices, stored, intermediate_dtype,
                {k \in DOMAIN indices :
                    indices[k].fo = x[1] /\ indices[k].seg_n = x[3]},
                x[2])])

seg_frame_typed(ds, num_output_frames, indices, num_segments, combine_segments, rescale_fractional, skip_overlap_checks, max_output_val, will_be_rescaled, dtype) ==
    IF dtype_kind(dtype) \notin {"u", "i", "f"} THEN PixelsFail("ValueError")
    ELSE IF will_be_rescaled /\ dtype_kind(dtype) # "f"
    THEN PixelsFail("ValueError")
    ELSE IF check_numpy_value_representation(max_output_val, dtype)
    THEN PixelsFail("ValueError")
    ELSE IF combine_segments
    THEN combine_pixels(ds, num_output_frames, indices, rescale_fractional,
                        skip_overlap_checks, stored_frames(ds))
    ELSE stack_pixels(ds, num_output_frames, indices, num_segments,
                      rescale_fractional,
                      IF will_be_rescaled THEN "uint8" ELSE dtype,
                      stored_frames(ds))

seg_frame_ranged(ds, num_output_frames, indices, num_segments, combine_segments, rescale_fractional, skip_overlap_checks, max_output_val, will_be_rescaled, dtype_arg) ==
    seg_frame_typed(ds, num_output_frames, indices, num_segments,
        combine_segments, rescale_fractional, skip_overlap_checks,
        max_output_val, will_be_rescaled,
        IF dtype_arg # "None" THEN dtype_arg
        ELSE IF will_be_rescaled THEN "float32"
        ELSE get_unsigned_dtype(max_output_val))

\* returns [err, out]
get_pixels_by_seg_frame(o, num_output_frames, indices, segment_numbers, combine_segments, relabel, rescale_fractional, skip_overlap_checks, dtype_arg) ==
    IF Min(Range(segment_numbers)) < 1
        \/ Max(Range(segment_numbers)) > number_of_segments_of(o)
    THEN PixelsFail("ValueError")
    ELSE seg_frame_ranged(o.ds, num_output_frames, indices,
            Len(segment_numbers), combine_segments, rescale_fractional,
            skip_overlap_checks,
            IF ~combine_segments THEN 1
            ELSE IF relabel THEN Len(segment_numbers)
            ELSE Max(Range(segment_numbers)),
            rescale_fractional /\ o.ds.SegmentationType = "FRACTIONAL"
                /\ ~combine_segments,
            dtype_arg)

\* --------------------------------------------------------------- queries
\* a check that the override of the spatial locations switches off
check_indexing_unless_ignored(o, ignore_spatial_locations) ==
    IF ignore_spatial_locations THEN "ok"
    ELSE IF o.locations_preserved \in {"NONE", "NO"} THEN "RuntimeError"
    ELSE IF ~o.single THEN "RuntimeError"
    ELSE "ok"

\* "ok" or the exception of _check_indexing_with_source_frames
check_indexing_with_source_frames(o, ignore_spatial_locations) ==
    IF o.locations_preserved \in {"NONE", "NO"} /\ ~ignore_spatial_locations
    THEN "RuntimeError"
    ELSE IF ~o.single THEN "RuntimeError"
    ELSE "ok"

\* Segmentation.segment_numbers
segment_numbers_of(o) == OneToN(number_of_segments_of(o))

\* A query returns [err, out, temp]: temp is the set of temporary tables the
\* call leaves in the database.
QueryFail(o, e) == [err |-> e, out |-> NoArray, temp |-> o.db.temp]

\* leaving the "with" block: the tables are dropped only when the block
\* ends without an exception
query_result(o, it, r) ==
    IF r.err # "ok" THEN [err |-> r.err, out |-> NoArray, temp |-> it.temp]
    ELSE [err |-> "ok", out |-> r.out, temp |-> o.db.temp]

\* "with iterate_indices_by_...(...) as indices: return
\* self._get_pixels_by_seg_frame(...)", it being the outcome of entering the
\* context manager
run_query(o, q, segment_numbers, num_output_frames, it) ==
    IF it.err # "ok" THEN [err |-> it.err, out |-> NoArray, temp |-> it.temp]
    ELSE query_result(o, it,
            get_pixels_by_seg_frame(o, num_output_frames, it.indices,
                segment_numbers, q.combine, q.relabel, q.rescale, q.skip,
                q.dtype))

\* A call q of get_pixels_by_source_instance is a record
\*   [uids, segsGiven, segs, combine, relabel, rescale, ignore, assertMissing,
\*    skip, dtype]
\* (segs is the segment_numbers argument when segsGiven, None otherwise).
source_instance_query(o, q, segment_numbers) ==
    IF check_indexing_with_source_frames(o, q.ignore) # "ok"
    THEN QueryFail(o, "RuntimeError")
    ELSE IF Len(segment_numbers) = 0 THEN QueryFail(o, "ValueError")
    ELSE IF Len(q.uids) = 0 THEN QueryFail(o, "ValueError")
    ELSE IF ~are_referenced_sop_instances_unique(o.db)
    THEN QueryFail(o, "RuntimeError")
    ELSE IF ~q.assertMissing
            /\ Range(q.uids) \ get_unique_sop_instance_uids(o.db) # {}
    THEN QueryFail(o, "KeyError")
    ELSE run_query(o, q, segment_numbers, Len(q.uids),
            iterate_indices(o.db, "TemporarySOPInstanceUIDs", q.uids, TRUE,
                [i \in DOMAIN o.db.FrameLUT |->
                    o.db.FrameLUT[i].ReferencedSOPInstanceUID],
                segment_numbers, q.combine, q.relabel))

get_pixels_by_source_instance(o, q) ==
    source_instance_query(o, q,
        IF q.segsGiven THEN q.segs ELSE segment_numbers_of(o))

get_max_frame_number(db) ==
    Max({db.FrameLUT[i].ReferencedFrameNumber : i \in DOMAIN db.FrameLUT})

\* A call q of get_pixels_by_source_frame is a record
\*   [uid, frames, segsGiven, segs, combine, relabel, rescale, ignore,
\*    assertMissing, skip, dtype]
source_frame_query(o, q, segment_numbers) ==
    IF check_indexing_with_source_frames(o, q.ignore) # "ok"
    THEN QueryFail(o, "RuntimeError")
    ELSE IF Len(segment_numbers) = 0 THEN QueryFail(o, "ValueError")
    ELSE IF Len(q.frames) = 0 THEN QueryFail(o, "ValueError")
    ELSE IF \E k \in DOMAIN q.frames : q.frames[k] <= 0
    THEN QueryFail(o, "ValueError")
    ELSE IF ~are_referenced_frames_unique(o.db)
    THEN QueryFail(o, "RuntimeError")
    ELSE IF ~q.assertMissing /\ o.db.FrameLUT = <<>>
    THEN QueryFail(o, "TypeError")
    ELSE IF ~q.assertMissing
            /\ \E k \in DOMAIN q.frames :
                    q.frames[k] > get_max_frame_number(o.db)
    THEN QueryFail(o, "ValueError")
    ELSE run_query(o, q, segment_numbers, Len(q.frames),
            iterate_indices(o.db, "TemporaryFrameNumbers", q.frames, TRUE,
                [i \in DOMAIN o.db.FrameLUT |->
                    o.db.FrameLUT[i].ReferencedFrameNumber],
                segment_numbers, q.combine, q.relabel))

get_pixels_by_source_frame(o, q) ==
    source_frame_query(o, q,
        IF q.segsGiven THEN q.segs ELSE segment_numbers_of(o))

\* positions in _dim_ind_pointers of the given pointer names
pointer_positions(o, dimension_index_pointers) ==
    [k \in DOMAIN dimension_index_pointers |->
        Min({i \in DOMAIN dim_ind_pointers(o.ds) :
                dim_ind_pointers(o.ds)[i] = dimension_index_pointers[k]})]

\* Segmentation.are_dimension_indices_unique: "True", "False" or the
\* exception
are_dimension_indices_unique(o, dimension_index_pointers) ==
    IF Len(dimension_index_pointers) = 0 THEN "ValueError"
    ELSE IF \E k \in DOMAIN dimension_index_pointers :
                dimension_index_pointers[k] \notin Range(dim_ind_pointers(o.ds))
    THEN "KeyError"
    ELSE IF db_are_dimension_indices_unique(o.db,
                pointer_positions(o, dimension_index_pointers))
    THEN "True" ELSE "False"

get_unique_dim_index_values(db, positions) ==
    { [k \in DOMAIN positions |->
            db.FrameLUT[i].DimensionIndexValues[positions[k]]] :
        i \in DOMAIN db.FrameLUT }

\* the checks of get_pixels_by_dimension_index_values that follow the
\* validation of the pointers; positions are those of the pointers
dimension_index_lookup(o, q, segment_numbers, positions) ==
    IF Len(q.values) = 0 THEN QueryFail(o, "ValueError")
    ELSE IF \E k \in DOMAIN q.values : Len(q.values[k]) # Len(positions)
    THEN QueryFail(o, "ValueError")
    ELSE IF Len(positions) = 0 THEN QueryFail(o, "ValueError")
    ELSE IF ~db_are_dimension_indices_unique(o.db, positions)
    THEN QueryFail(o, "RuntimeError")
    ELSE IF ~q.assertMissing
            /\ Range(q.values) \ get_unique_dim_index_values(o.db, positions)
                    # {}
    THEN QueryFail(o, "ValueError")
    ELSE run_query(o, q, segment_numbers, Len(q.values),
            iterate_indices(o.db, "TemporaryDimensionIndexValues",
                q.values, FALSE,
                [i \in DOMAIN o.db.FrameLUT |->
                    [k \in DOMAIN positions |->
                        o.db.FrameLUT[i].DimensionIndexValues[positions[k]]]],
                segment_numbers, q.combine, q.relabel))

\* A call q of get_pixels_by_dimension_index_values is a record
\*   [values, ptrsGiven, ptrs, segsGiven, segs, combine, relabel, rescale,
\*    assertMissing, skip, dtype]
dimension_index_query(o, q, segment_numbers, dimension_index_pointers) ==
    IF Len(segment_numbers) = 0 THEN QueryFail(o, "ValueError")
    ELSE IF q.ptrsGiven /\ Len(q.ptrs) = 0 THEN QueryFail(o, "ValueError")
    ELSE IF \E k \in DOMAIN dimension_index_pointers :
                dimension_index_pointers[k] \notin Range(dim_ind_pointers(o.ds))
    THEN QueryFail(o, "KeyError")
    ELSE dimension_index_lookup(o, q, segment_numbers,
            pointer_positions(o, dimension_index_pointers))

get_pixels_by_dimension_index_values(o, q) ==
    dimension_index_query(o, q,
        IF q.segsGiven THEN q.segs ELSE segment_numbers_of(o),
        IF q.ptrsGiven THEN q.ptrs ELSE dim_ind_pointers(o.ds))

\* ------------------------------------------------ constructor arguments
\* the subsets of D with at most k elements
RECURSIVE SubsetsUpTo(_, _)
SubsetsUpTo(D, k) ==
    IF k = 0 THEN {{}}
    ELSE LET P == SubsetsUpTo(D, k - 1)
         IN  P \cup {S \cup {x} : S \in P, x \in D}

\* the arrays over the cells D with at most MaxSetPixels non-zero cells,
\* the non-zero values drawn from Vals
SparseArrays(D, Vals) ==
    UNION { { [x \in D |-> IF x \in S THEN f[x] ELSE 0] : f \in [S -> Vals] }
            : S \in SubsetsUpTo(D, MaxSetPixels) }

\* the non-zero pixel values of each element type: True; 1 and 2; 0.5 and 1.0
PixelValues(dtype) == IF dtype = "bool" THEN {1} ELSE {1, 2}

Shapes ==
    {<<2, 1, 0>>} \cup {<<3, np, 0>> : np \in 1..MaxPlanes}
        \cup {<<4, np, ns>> : np \in 1..MaxPlanes, ns \in 1..MaxSegments}

PixelArrays(shape, dtype, Vals) ==
    { [ndim |-> shape[1], dtype |-> dtype, np |-> shape[2], ns |-> shape[3],
       val |-> v] : v \in SparseArrays(Cells(shape[1], shape[2], shape[3]), Vals) }

SegmentationTypes == {"BINARY", "FRACTIONAL", "LABELMAP"}

\* the constructor called on a series of pa.np single-frame source images at
\* ascending positions, without the plane_positions argument
SeriesInput(pa, segNums, segType, maxFrac, omit, castMode) ==
    [nsrc |-> pa.np, multiframe |-> FALSE, srcPos |-> OneToN(pa.np),
     planePosGiven |-> FALSE, planePos |-> <<>>, sameOrientation |-> TRUE,
     segNums |-> segNums, pa |-> pa, segType |-> segType,
     maxFrac |-> maxFrac, omit |-> omit, castMode |-> castMode]

\* the segment numbers of the segment descriptions, in any order and number
SegmentNumberLists ==
    UNION { [1..n -> 0..(MaxSegments + 1)] : n \in 0..(MaxSegments + 1) }

ZeroArray == [ndim |-> 3, dtype |-> "uint8", np |-> 1, ns |-> 0, val |-> [x \in Cells(3, 1, 0) |-> 0]]

\* every pixel array with every segmentation type and a well-numbered
\* description list, and every description list with an empty mask
EncodeInputs ==
    { SeriesInput(pa, OneToN(n), t, 255, omit, "wrap") :
        pa \in UNION { PixelArrays(sh, d, PixelValues(d)) :
                        sh \in Shapes, d \in {"bool", "uint8", "float"} },
        n \in 1..MaxSegments, t \in SegmentationTypes, omit \in BOOLEAN }
    \cup
    { SeriesInput(ZeroArray, nums, t, 255, FALSE, "wrap") :
        nums \in SegmentNumberLists, t \in SegmentationTypes }

\* ------------------------------------------------------------ the machine
VARIABLES pc, input, obj, call, nq

vars == <<pc, input, obj, call, nq>>

NoInput == [kind |-> "none"]

NoCall == [op |-> "none"]

Init ==
    /\ pc = "start"
    /\ input = NoInput
    /\ obj = CtorFail("none", "none")
    /\ call = NoCall
    /\ nq = 0

\* Segmentation(...): the object exists only when the constructor returns
Construct(in) ==
    /\ pc = "start"
    /\ \E r \in {Encode(in)} :
           /\ pc' = IF r.err = "ok" THEN "ready" ELSE "failed"
           /\ obj' = r
    /\ input' = [kind |-> "encode", args |-> in]
    /\ UNCHANGED <<call, nq>>

ConstructAny == pc = "start" /\ \E in \in EncodeInputs : Construct(in)

NextEncode == ConstructAny

SpecEncode == Init /\ [][NextEncode]_vars

\* ------------------------------------------------- properties of encoding
EncodeCalled == input.kind = "encode"

\* the constructor got past _check_and_cast_pixel_array, so that
\* self.SegmentsOverlap is assigned
OverlapRecorded == EncodeCalled /\ obj.SegmentsOverlap # "NONE"

IsOneToN(nums) == nums = OneToN(Len(nums))

\* C3: for every list of segment descriptions, the empty list included,
\* the constructor raises ValueError at the segment number check unless the
\* numbers are exactly 1..N in order, and passes the check when they are.
\* (The empty list must either pass or raise ValueError.)
C3_SegmentNumbersEnforced ==
    EncodeCalled =>
        LET nums == input.args.segNums
        IN  /\ ~IsOneToN(nums) =>
                (obj.at = "check_segment_numbers" /\ obj.err = "ValueError")
            /\ IsOneToN(nums) =>
                (obj.at # "check_segment_numbers" \/ obj.err = "ValueError")
            /\ (IsOneToN(nums) /\ Len(nums) > 0) =>
                obj.at # "check_segment_numbers"

\* the segment axis of a 4D input holds two set pixels at one position
SomePixelInTwoSegments(pa) ==
    \E p \in 1..pa.np, c \in Cols :
        \E s1, s2 \in 1..pa.ns :
            s1 # s2 /\ pa.val[<<p, c, s1>>] # 0 /\ pa.val[<<p, c, s2>>] # 0

StackedBinaryInput ==
    /\ EncodeCalled
    /\ input.args.pa.ndim = 4
    /\ input.args.pa.dtype \in {"bool", "uint8"}
    /\ input.args.pa.ns >= 2
    /\ \A x \in PaCells(input.args.pa) : input.args.pa.val[x] \in {0, 1}

\* C5: for a 4D boolean or unsigned binary input with at least two segments
\* that passes the pixel array check, SegmentsOverlap is YES exactly when
\* some pixel position is set in more than one segment, and NO otherwise.
C5_OverlapIffSharedPixel ==
    (StackedBinaryInput /\ OverlapRecorded) =>
        obj.SegmentsOverlap =
            IF SomePixelInTwoSegments(input.args.pa) THEN "YES" ELSE "NO"

C5_Witness ==
    /\ StackedBinaryInput
    /\ pc = "ready"
    /\ SomePixelInTwoSegments(input.args.pa)
    /\ obj.ds.SegmentsOverlap = "YES"

\* an accepted single-segment input: 2D, 3D, or 4D with a last axis of 1,
\* boolean, unsigned, or float holding only 0.0 and 1.0
SingleSegmentInput ==
    /\ EncodeCalled
    /\ input.args.segNums = <<1>>
    /\ input.args.pa.ndim = 4 => input.args.pa.ns = 1
    /\ \A x \in PaCells(input.args.pa) :
          input.args.pa.val[x] \in (IF IsFloat(input.args.pa) THEN {0, 2} ELSE {0, 1})

\* C6: with a single segment the constructor accepts the pixel array and
\* classifies the overlap as NO, whatever the content, shape, element type
\* and segmentation type.
C6_SingleSegmentNeverOverlaps ==
    SingleSegmentInput =>
        (obj.at # "check_and_cast_pixel_array" /\ obj.SegmentsOverlap = "NO")

\* ------------------------------------------------------------ the queries
\* seg.get_pixels_by_source_instance(...): the call may leave temporary
\* tables in the index
GetPixelsBySourceInstance(q) ==
    /\ pc = "ready"
    /\ nq < MaxQueries
    /\ \E r \in {get_pixels_by_source_instance(obj, q)} :
           /\ call' = [op |-> "get_pixels_by_source_instance", q |-> q,
                       err |-> r.err, out |-> r.out, before |-> obj.db.temp]
           /\ obj' = [obj EXCEPT !.db = database_after(obj.db, r.temp)]
    /\ nq' = nq + 1
    /\ UNCHANGED <<pc, input>>

SourceInstanceQuery(uids, segsGiven, segs, combine, relabel, rescale, ignore, assertMissing, skip, dtype) ==
    [uids |-> uids, segsGiven |-> segsGiven, segs |-> segs,
     combine |-> combine, relabel |-> relabel, rescale |-> rescale,
     ignore |-> ignore, assertMissing |-> assertMissing, skip |-> skip,
     dtype |-> dtype]

\* ---------------------------------------------------------- the round trip
\* the source planes at every assignment of positions, repeated ones included
SourcePositions(n) == [1..n -> 1..n]

\* binary masks of every shape and element type: a stack of segments, or
\* the mask of a single segment
BinaryMasks ==
    UNION { PixelArrays(sh, d, IF d = "float" THEN {2} ELSE {1}) :
                sh \in Shapes, d \in {"bool", "uint8", "float"} }

BinaryInputs ==
    { [SeriesInput(pa, OneToN(IF pa.ndim = 4 THEN pa.ns ELSE 1), "BINARY", 255, omit, "wrap") EXCEPT !.srcPos = pos] :
        <<pa, pos>> \in { t \in BinaryMasks \X UNION {SourcePositions(n) : n \in 1..MaxPlanes} :
                            Len(t[2]) = t[1].np },
        omit \in BOOLEAN }

ConstructBinary == pc = "start" /\ \E in \in BinaryInputs : Construct(in)

\* all source instances in source order, segments stacked
QueryAllSources ==
    \E rescale, ignore, assertMissing \in BOOLEAN :
        GetPixelsBySourceInstance(
            SourceInstanceQuery(OneToN(input.args.nsrc), FALSE, <<>>, FALSE,
                                FALSE, rescale, ignore, assertMissing, FALSE,
                                "None"))

NextRoundTrip == ConstructBinary \/ QueryAllSources

SpecRoundTrip == Init /\ [][NextRoundTrip]_vars

\* the value of the input mask at plane p, column c, segment s (1-based)
InputBit(pa, p, c, s) ==
    LET v == IF pa.ndim = 4 THEN pa.val[<<p, c, s>>] ELSE pa.val[<<p, c>>]
    IN  IF v = 0 THEN 0 ELSE 1

BinaryMaskEncoded ==
    /\ EncodeCalled
    /\ input.args.segType = "BINARY"
    /\ ~input.args.multiframe
    /\ ~input.args.planePosGiven /\ input.args.sameOrientation
    /\ ~HasDuplicates(input.args.srcPos)
    /\ \A x \in PaCells(input.args.pa) :
          input.args.pa.val[x] \in (IF IsFloat(input.args.pa) THEN {0, 2} ELSE {0, 1})
    /\ IF input.args.pa.ndim = 4
       THEN Len(input.args.segNums) = input.args.pa.ns
       ELSE Len(input.args.segNums) = 1

RoundTripCall ==
    /\ BinaryMaskEncoded
    /\ call.op = "get_pixels_by_source_instance"
    /\ call.before = {}
    /\ call.q.uids = OneToN(input.args.nsrc)
    /\ ~call.q.segsGiven /\ ~call.q.combine /\ call.q.dtype = "None"

\* C1: a binary mask whose planes are the source instances, at distinct
\* positions, encoded as BINARY with or without omission of empty frames and
\* read back by get_pixels_by_source_instance with all source UIDs in
\* source order and stacked segments, comes back element for element;
\* omitted planes come back as zeros.
C1_RoundTrip ==
    RoundTripCall =>
        /\ call.err = "ok"
        /\ call.out.ndim = 4 /\ call.out.den = 1
        /\ call.out.nf = input.args.pa.np
        /\ call.out.ns = Len(input.args.segNums)
        /\ \A p \in 1..input.args.pa.np, c \in Cols, s \in DOMAIN input.args.segNums :
              call.out.val[<<p - 1, c, s - 1>>] = InputBit(input.args.pa, p, c, s)

\* a round trip through an object from which an empty plane was omitted
C1_Witness ==
    /\ RoundTripCall
    /\ call.err = "ok"
    /\ input.args.omit
    /\ obj.ds.NumberOfFrames < input.args.pa.np * Len(input.args.segNums)
    /\ \E x \in DOMAIN call.out.val : call.out.val[x] = 1
    /\ \E p \in 1..input.args.pa.np : ~PlaneAny(input.args.pa, p)

\* ------------------------------------------------- sequences of queries
GetPixelsBySourceFrame(q) ==
    /\ pc = "ready"
    /\ nq < MaxQueries
    /\ \E r \in {get_pixels_by_source_frame(obj, q)} :
           /\ call' = [op |-> "get_pixels_by_source_frame", q |-> q,
                       err |-> r.err, out |-> r.out, before |-> obj.db.temp]
           /\ obj' = [obj EXCEPT !.db = database_after(obj.db, r.temp)]
    /\ nq' = nq + 1
    /\ UNCHANGED <<pc, input>>

GetPixelsByDimensionIndexValues(q) ==
    /\ pc = "ready"
    /\ nq < MaxQueries
    /\ \E r \in {get_pixels_by_dimension_index_values(obj, q)} :
           /\ call' = [op |-> "get_pixels_by_dimension_index_values", q |-> q,
                       err |-> r.err, out |-> r.out, before |-> obj.db.temp]
           /\ obj' = [obj EXCEPT !.db = database_after(obj.db, r.temp)]
    /\ nq' = nq + 1
    /\ UNCHANGED <<pc, input>>

SourceFrameQuery(uid, frames, segsGiven, segs, combine, relabel, rescale, ignore, assertMissing, skip, dtype) ==
    [uid |-> uid, frames |-> frames, segsGiven |-> segsGiven, segs |-> segs,
     combine |-> combine, relabel |-> relabel, rescale |-> rescale,
     ignore |-> ignore, assertMissing |-> assertMissing, skip |-> skip,
     dtype |-> dtype]

DimensionIndexQuery(values, ptrsGiven, ptrs, segsGiven, segs, combine, relabel, rescale, assertMissing, skip, dtype) ==
    [values |-> values, ptrsGiven |-> ptrsGiven, ptrs |-> ptrs,
     segsGiven |-> segsGiven, segs |-> segs, combine |-> combine,
     relabel |-> relabel, rescale |-> rescale,
     assertMissing |-> assertMissing, skip |-> skip, dtype |-> dtype]

\* requested keys (UIDs, frame numbers, plane indices): known and unknown
\* ones, in any order, repeated or not
KeyLists == UNION { [1..k -> 1..(MaxPlanes + 1)] : k \in 1..MaxPlanes }

\* requested segment numbers: described and undescribed ones
SegLists == UNION { [1..k -> 1..(MaxSegments + 1)] : k \in 1..MaxSegments }

\* a stack of MaxSegments binary segments over MaxPlanes planes, derived from
\* a series or from the frames of one multi-frame image
StackInputs ==
    { [SeriesInput(pa, OneToN(MaxSegments), "BINARY", 255, FALSE, "wrap") EXCEPT !.multiframe = mf] :
        pa \in PixelArrays(<<4, MaxPlanes, MaxSegments>>, "uint8", {1}),
        mf \in BOOLEAN }

ConstructStack == pc = "start" /\ \E in \in StackInputs : Construct(in)

QueryBySourceInstance ==
    \/ \E uids \in KeyLists :
        GetPixelsBySourceInstance(
            SourceInstanceQuery(uids, FALSE, <<>>, FALSE, FALSE, TRUE, FALSE,
                                FALSE, FALSE, "None"))
    \/ \E segs \in SegLists :
        GetPixelsBySourceInstance(
            SourceInstanceQuery(OneToN(MaxPlanes), TRUE, segs, TRUE, FALSE,
                                TRUE, FALSE, FALSE, FALSE, "None"))
    \/ GetPixelsBySourceInstance(
            SourceInstanceQuery(OneToN(MaxPlanes), FALSE, <<>>, FALSE, FALSE,
                                TRUE, FALSE, FALSE, FALSE, "bool"))

QueryBySourceFrame ==
    \E frames \in KeyLists :
        GetPixelsBySourceFrame(
            SourceFrameQuery(1, frames, FALSE, <<>>, TRUE, FALSE, TRUE, FALSE,
                             FALSE, FALSE, "None"))

QueryByDimensionIndexValues ==
    \E keys \in KeyLists :
        GetPixelsByDimensionIndexValues(
            DimensionIndexQuery([k \in DOMAIN keys |-> <<keys[k]>>], FALSE,
                                <<>>, FALSE, <<>>, TRUE, FALSE, TRUE, FALSE,
                                FALSE, "None"))

NextQueries ==
    \/ ConstructStack
    \/ QueryBySourceInstance
    \/ QueryBySourceFrame
    \/ QueryByDimensionIndexValues

SpecQueries == Init /\ [][NextQueries]_vars

\* the outcome of the last call had it been made on an index without
\* temporary tables
OutcomeOn(clean) ==
    IF call.op = "get_pixels_by_source_instance"
    THEN get_pixels_by_source_instance(clean, call.q)
    ELSE IF call.op = "get_pixels_by_source_frame"
    THEN get_pixels_by_source_frame(clean, call.q)
    ELSE get_pixels_by_dimension_index_values(clean, call.q)

OutcomeOnCleanIndex == OutcomeOn([obj EXCEPT !.db.temp = {}])

\* C2: after any query returns or raises, no temporary table remains in the
\* index, and the outcome of a query does not depend on the queries made
\* before it.
C2_TemporaryTablesReleased ==
    call.op # "none" =>
        /\ obj.db.temp = {}
        /\ \A r \in {OutcomeOnCleanIndex} :
                call.err = r.err /\ call.out = r.out

\* a query met a table that an earlier failed query left behind
C2_StaleTableMet ==
    /\ call.op # "none"
    /\ call.before # {}
    /\ call.err = "OperationalError"
    /\ OutcomeOnCleanIndex.err = "ok"

\* ------------------------------------------------- label map combination
\* the sequences without repetition over S, the empty one excluded
Arrangements(S) ==
    UNION { { f \in [1..k -> S] : ~HasDuplicates(f) } : k \in 1..Cardinality(S) }

\* segmentations of a series: a stack of binary segments, or a label map of
\* MaxSegments segments
SegmentInputs ==
    { SeriesInput(pa, OneToN(pa.ns), "BINARY", 255, omit, "wrap") :
        pa \in UNION { PixelArrays(<<4, np, ns>>, "uint8", {1}) :
                        np \in 1..MaxPlanes, ns \in 1..MaxSegments },
        omit \in BOOLEAN }
    \cup
    { SeriesInput(pa, OneToN(MaxSegments), "BINARY", 255, omit, "wrap") :
        pa \in UNION { PixelArrays(<<3, np, 0>>, "uint8", 1..MaxSegments) :
                        np \in 1..MaxPlanes },
        omit \in BOOLEAN }

ConstructSegments == pc = "start" /\ \E in \in SegmentInputs : Construct(in)

QueryCombined ==
    /\ pc = "ready"
    /\ \E uids \in Arrangements(1..input.args.nsrc) :
       \E segs \in {<<>>} \cup Arrangements(1..Len(input.args.segNums)) :
       \E relabel \in BOOLEAN :
            GetPixelsBySourceInstance(
                SourceInstanceQuery(uids, segs # <<>>, segs, TRUE, relabel,
                    TRUE, FALSE, FALSE, FALSE, "None"))

NextCombine == ConstructSegments \/ QueryCombined

SpecCombine == Init /\ [][NextCombine]_vars

\* pixel (p, c) of the input belongs to segment s
InSegment(in, p, c, s) ==
    IF in.pa.ndim = 4 THEN in.pa.val[<<p, c, s>>] # 0
    ELSE IF Len(in.segNums) = 1 THEN in.pa.val[<<p, c>>] # 0
    ELSE in.pa.val[<<p, c>>] = s

\* the segments asked for by the last call
RequestedSegments ==
    IF call.q.segsGiven THEN call.q.segs ELSE OneToN(Len(input.args.segNums))

\* the positions in the request of the segments that hold pixel (p, c)
Holders(p, c) ==
    {i \in DOMAIN RequestedSegments :
        InSegment(input.args, p, c, RequestedSegments[i])}

\* a combining query for described segments that do not overlap, on an
\* index without leftover tables
CombineCall ==
    /\ EncodeCalled /\ input.args.segType = "BINARY"
    /\ call.op = "get_pixels_by_source_instance"
    /\ call.q.combine
    /\ call.before = {}
    /\ ~HasDuplicates(call.q.uids) /\ ~HasDuplicates(RequestedSegments)
    /\ Range(call.q.uids) \subseteq 1..input.args.nsrc
    /\ Range(RequestedSegments) \subseteq 1..Len(input.args.segNums)
    /\ \A p \in 1..input.args.pa.np, c \in Cols : Cardinality(Holders(p, c)) <= 1

\* C7: a combining query over non-overlapping binary segments returns a 3D
\* array in which a pixel is 0 when no requested segment holds it and
\* otherwise the output number of the one that does: its segment number
\* (relabel = False) or its 1-based position in segment_numbers (relabel =
\* True).
C7_LabelMapValues ==
    CombineCall =>
        /\ call.err = "ok"
        /\ call.out.ndim = 3 /\ call.out.nf = Len(call.q.uids)
        /\ \A k \in DOMAIN call.q.uids, c \in Cols :
              call.out.val[<<k - 1, c>>] =
                  IF Holders(call.q.uids[k], c) = {} THEN 0
                  ELSE IF call.q.relabel
                  THEN Min(Holders(call.q.uids[k], c))
                  ELSE RequestedSegments[Min(Holders(call.q.uids[k], c))]

\* segment 2 requested first and relabelled to 1
C7_Witness ==
    /\ CombineCall
    /\ call.err = "ok"
    /\ call.q.relabel
    /\ call.q.segsGiven /\ Len(call.q.segs) >= 2 /\ call.q.segs[1] = 2
    /\ \E x \in DOMAIN call.out.val : call.out.val[x] = 1
    /\ \E x \in DOMAIN call.out.val : call.out.val[x] = 2

\* ------------------------------------------------------ missing instances
QueryMissing ==
    /\ pc = "ready"
    /\ \E uids \in Arrangements(1..(MaxPlanes + 1)) :
       \E combine, assertMissing \in BOOLEAN :
            /\ Len(uids) <= MaxPlanes
            /\ GetPixelsBySourceInstance(
                SourceInstanceQuery(uids, FALSE, <<>>, combine, FALSE, TRUE,
                    FALSE, assertMissing, FALSE, "None"))

NextMissing == ConstructSegments \/ QueryMissing

SpecMissing == Init /\ [][NextMissing]_vars

\* the positions in the request of the UIDs that the object does not
\* reference
MissingPositions ==
    {k \in DOMAIN call.q.uids : call.q.uids[k] \notin Range(obj.ds.Referenced)}

\* a query by source instance that names an unreferenced UID, on an object
\* that can be indexed by source instance
MissingCall ==
    /\ EncodeCalled
    /\ call.op = "get_pixels_by_source_instance"
    /\ check_indexing_with_source_frames(obj, call.q.ignore) = "ok"
    /\ are_referenced_sop_instances_unique(obj.db)
    /\ MissingPositions # {}

\* every other argument of the call is acceptable, and the index holds no
\* leftover table
AcceptableCall ==
    /\ call.before = {}
    /\ ~HasDuplicates(call.q.uids)
    /\ ~call.q.segsGiven /\ call.q.dtype = "None"
    /\ call.q.combine => obj.ds.SegmentsOverlap = "NO"

\* C10: get_pixels_by_source_instance with a UID outside the referenced
\* instances raises KeyError when assert_missing_frames_are_empty is False;
\* when it is True an otherwise acceptable call succeeds and the output
\* frame at the position of that UID is all zeros.
C10_MissingKeyPolicy ==
    MissingCall =>
        /\ ~call.q.assertMissing => call.err = "KeyError"
        /\ (call.q.assertMissing /\ AcceptableCall) =>
              /\ call.err = "ok"
              /\ \A x \in DOMAIN call.out.val :
                    (x[1] + 1) \in MissingPositions => call.out.val[x] = 0

\* a successful call with a missing UID next to a UID whose frame has pixels
C10_Witness ==
    /\ MissingCall /\ AcceptableCall
    /\ call.q.assertMissing
    /\ call.err = "ok"
    /\ \E x \in DOMAIN call.out.val : call.out.val[x] # 0

C10_WitnessRaised ==
    MissingCall /\ ~call.q.assertMissing /\ call.err = "KeyError"

\* ------------------------------------------------------ fractional values
\* values of max_fractional_value around the limit of the 8-bit pixel
FractionalMaxima == {1, 2, 255, 256, 257}

\* float arrays holding only 0.0 and 1.0, encoded as FRACTIONAL; the cast of
\* a value that does not fit the pixel may wrap or saturate
FractionalInputs ==
    { SeriesInput(pa, OneToN(IF pa.ndim = 4 THEN pa.ns ELSE 1), "FRACTIONAL", m, omit, cm) :
        pa \in UNION { PixelArrays(sh, "float", {2}) : sh \in Shapes },
        m \in FractionalMaxima, omit \in BOOLEAN,
        cm \in {"wrap", "saturate"} }

ConstructFractional == pc = "start" /\ \E in \in FractionalInputs : Construct(in)

QueryStacked ==
    /\ pc = "ready"
    /\ \E rescale \in BOOLEAN :
            GetPixelsBySourceInstance(
                SourceInstanceQuery(OneToN(input.args.nsrc), FALSE, <<>>,
                    FALSE, FALSE, rescale, FALSE, FALSE, FALSE, "None"))

NextFractional == ConstructFractional \/ QueryStacked

SpecFractional == Init /\ [][NextFractional]_vars

FractionalCall ==
    /\ EncodeCalled /\ input.args.segType = "FRACTIONAL"
    /\ IsFloat(input.args.pa)
    /\ \A x \in PaCells(input.args.pa) : input.args.pa.val[x] \in {0, 2}
    /\ call.op = "get_pixels_by_source_instance"
    /\ call.before = {}
    /\ call.q.uids = OneToN(input.args.nsrc)
    /\ ~call.q.segsGiven /\ ~call.q.combine /\ call.q.dtype = "None"

\* C9: a float array of 0.0 and 1.0 encoded as FRACTIONAL with
\* max_fractional_value = M and read back with stacked segments gives the
\* original values when rescale_fractional is True (value times the
\* denominator equals the numerator) and 0 or M when it is False.
C9_FractionalRoundTrip ==
    FractionalCall =>
        /\ call.err = "ok"
        /\ \A p \in 1..input.args.pa.np, c \in Cols, s \in DOMAIN input.args.segNums :
              IF call.q.rescale
              THEN call.out.val[<<p - 1, c, s - 1>>]
                        = InputBit(input.args.pa, p, c, s) * call.out.den
              ELSE /\ call.out.den = 1
                   /\ call.out.val[<<p - 1, c, s - 1>>]
                        = InputBit(input.args.pa, p, c, s) * input.args.maxFrac

\* the same round trip for the values of M that fit the 8-bit pixel
FractionalRoundTripBelowLimit ==
    (FractionalCall /\ input.args.maxFrac < MaxFractionalLimit) =>
        /\ call.err = "ok"
        /\ \A p \in 1..input.args.pa.np, c \in Cols, s \in DOMAIN input.args.segNums :
              IF call.q.rescale
              THEN call.out.val[<<p - 1, c, s - 1>>]
                        = InputBit(input.args.pa, p, c, s) * call.out.den
              ELSE /\ call.out.den = 1
                   /\ call.out.val[<<p - 1, c, s - 1>>]
                        = InputBit(input.args.pa, p, c, s) * input.args.maxFrac

\* ------------------------------------------ Segmentation.from_dataset
\* the positions of the segment sequence whose number is not the position,
\* looking at the first item only
misnumbered_first_segment(SegmentSequence) ==
    {i \in DOMAIN SegmentSequence \cap {1} : SegmentSequence[i] # i}

\* the positions of the segment sequence whose number is not the position
misnumbered_segments(SegmentSequence) ==
    {i \in DOMAIN SegmentSequence : SegmentSequence[i] # i}

\* from_dataset: the numbering of the segments is checked, then the frame
\* index is built
from_dataset(dataset) ==
    IF misnumbered_segments(dataset.SegmentSequence) # {}
    THEN CtorFail("AttributeError", "SegmentSequence")
    ELSE encode_indexed(dataset)

RowPointer == "RowPositionInTotalImagePixelMatrix"
ColumnPointer == "ColumnPositionInTotalImagePixelMatrix"

\* a per-frame item of a tiled segmentation of one multi-frame source image
tile_item(seg, row, column) ==
    [seg |-> seg,
     DimensionIndexValues |-> <<seg, row, column>>,
     refs |-> << [uid |-> 1, frames |-> <<1>>, slp |-> "YES"] >>]

TileItems ==
    { tile_item(s, r, c) : s \in 1..MaxSegments, r \in 1..Columns, c \in 1..Columns }

\* datasets as they may arrive: any numbering of the segments and any
\* index values of the frames
tile_dataset(segs, items) ==
    [SegmentSequence |-> segs,
     SegmentationType |-> "FRACTIONAL",
     MaximumFractionalValue |-> 255,
     SegmentsOverlap |-> "UNDEFINED",
     NumberOfFrames |-> Len(items),
     DimensionIndexSequence |-> <<SegNumPointer, RowPointer, ColumnPointer>>,
     PerFrame |-> items,
     PixelData |-> Flatten([j \in DOMAIN items |-> [c \in Cols |-> 0]]),
     Referenced |-> <<1>>]

Datasets ==
    { tile_dataset(segs, items) :
        segs \in UNION { [1..n -> 0..(MaxSegments + 1)] : n \in 0..MaxSegments },
        items \in UNION { [1..n -> TileItems] : n \in 1..MaxPlanes } }

FromDataset(dataset) ==
    /\ pc = "start"
    /\ \E r \in {from_dataset(dataset)} :
           /\ pc' = IF r.err = "ok" THEN "ready" ELSE "failed"
           /\ obj' = r
    /\ input' = [kind |-> "decode", args |-> dataset]
    /\ UNCHANGED <<call, nq>>

AreDimensionIndicesUnique(dimension_index_pointers) ==
    /\ pc = "ready"
    /\ nq < MaxQueries
    /\ \E r \in {are_dimension_indices_unique(obj, dimension_index_pointers)} :
           call' = [op |-> "are_dimension_indices_unique",
                    q |-> [ptrs |-> dimension_index_pointers],
                    err |-> IF r \in {"True", "False"} THEN "ok" ELSE r,
                    out |-> IF r \in {"True", "False"} THEN r ELSE "None",
                    before |-> obj.db.temp]
    /\ nq' = nq + 1
    /\ UNCHANGED <<pc, input, obj>>

\* pointer lists: empty, valid ones, and ones that name a pointer the image
\* does not use or the segment number pointer
PointerLists ==
    UNION { [1..n -> {RowPointer, ColumnPointer, SegNumPointer, "ImagePositionPatient"}] : n \in 0..2 }

DecodeAny == pc = "start" /\ \E dataset \in Datasets : FromDataset(dataset)

CheckPointers == pc = "ready" /\ \E ptrs \in PointerLists : AreDimensionIndicesUnique(ptrs)

NextDecode == DecodeAny \/ CheckPointers

SpecDecode == Init /\ [][NextDecode]_vars

DecodeCalled == pc # "start" /\ input.kind = "decode"

\* C4: from_dataset rejects every dataset whose segment sequence is not
\* numbered 1..N in sequence order, and it raises before the frame index is
\* built: no object is produced and nothing can be queried.
C4_TamperedSegmentsRejected ==
    (DecodeCalled /\ ~IsOneToN(input.args.SegmentSequence)) =>
        /\ pc = "failed"
        /\ obj.err # "ok"
        /\ obj.at = "SegmentSequence"
        /\ obj.db = NoDB
        /\ call = NoCall

C4_Witness ==
    /\ DecodeCalled
    /\ Len(input.args.SegmentSequence) = 2
    /\ input.args.SegmentSequence[1] = 1
    /\ input.args.SegmentSequence[2] # 2
    /\ pc = "failed"

\* the pointers given are all dimension index pointers of the image other
\* than the segment number
ValidPointers(ptrs) ==
    \A k \in DOMAIN ptrs : ptrs[k] \in {RowPointer, ColumnPointer}

\* the value a stored frame has for a pointer
StoredIndexValue(item, ptr) ==
    item.DimensionIndexValues[IF ptr = RowPointer THEN 2 ELSE 3]

\* two stored frames that share the segment number and every given pointer
SharedKey(ptrs) ==
    \E i, j \in DOMAIN obj.ds.PerFrame :
        /\ i # j
        /\ obj.ds.PerFrame[i].seg = obj.ds.PerFrame[j].seg
        /\ \A k \in DOMAIN ptrs :
              StoredIndexValue(obj.ds.PerFrame[i], ptrs[k])
                = StoredIndexValue(obj.ds.PerFrame[j], ptrs[k])

\* C8: are_dimension_indices_unique raises ValueError on an empty pointer
\* list, and for a non-empty list of valid pointers returns true exactly
\* when no two stored frames share the segment number and the values of all
\* the given pointers.
C8_UniquenessGate ==
    (pc = "ready" /\ call.op = "are_dimension_indices_unique") =>
        /\ Len(call.q.ptrs) = 0 => call.err = "ValueError"
        /\ (Len(call.q.ptrs) > 0 /\ ValidPointers(call.q.ptrs)) =>
              /\ call.err = "ok"
              /\ call.out \in {"True", "False"}
              /\ call.out = "True" <=> ~SharedKey(call.q.ptrs)

C8_Witness ==
    /\ pc = "ready" /\ call.op = "are_dimension_indices_unique"
    /\ call.q.ptrs = <<RowPointer>>
    /\ Len(obj.ds.PerFrame) = 2
    /\ obj.ds.PerFrame[1].seg # obj.ds.PerFrame[2].seg
    /\ StoredIndexValue(obj.ds.PerFrame[1], RowPointer)
         = StoredIndexValue(obj.ds.PerFrame[2], RowPointer)
    /\ call.out = "True"

C8_WitnessEmpty ==
    /\ pc = "ready" /\ call.op = "are_dimension_indices_unique"
    /\ call.q.ptrs = <<>>
    /\ call.err = "ValueError"

\* ------------------------------------------- the index under queries
\* the distinct-value lookups of the index: they only read
LookupDistinctValues(lookup) ==
    /\ pc = "ready"
    /\ nq < MaxQueries
    /\ call' = [op |-> lookup, q |-> [ptrs |-> <<1>>], err |-> "ok",
                out |-> IF lookup = "get_unique_sop_instance_uids"
                        THEN get_unique_sop_instance_uids(obj.db)
                        ELSE IF lookup = "get_max_frame_number"
                        THEN {get_max_frame_number(obj.db)}
                        ELSE get_unique_dim_index_values(obj.db, <<1>>),
                before |-> obj.db.temp]
    /\ nq' = nq + 1
    /\ UNCHANGED <<pc, input, obj>>

LookupAny ==
    \E lookup \in {"get_unique_sop_instance_uids", "get_max_frame_number", "get_unique_dim_index_values"} :
        LookupDistinctValues(lookup)

NextIndex ==
    \/ ConstructStack
    \/ QueryBySourceInstance
    \/ QueryBySourceFrame
    \/ QueryByDimensionIndexValues
    \/ CheckPointers
    \/ LookupAny

SpecIndex == Init /\ [][NextIndex]_vars

\* C11: whatever queries were made on an object, and whether they returned
\* or raised, the rows of FrameLUT and of InstanceUIDs are those the
\* constructor wrote.
C11_FrameIndexNeverMutated ==
    (pc = "ready" /\ EncodeCalled) =>
        \A r \in {Encode(input.args)} :
            /\ obj.db.FrameLUT = r.db.FrameLUT
            /\ obj.db.InstanceUIDs = r.db.InstanceUIDs
            /\ obj.db.number_of_frames = r.db.number_of_frames
            /\ obj.db.has_source_columns = r.db.has_source_columns

C11_Witness ==
    /\ pc = "ready" /\ EncodeCalled
    /\ nq = MaxQueries
    /\ call.err \notin {"ok"}
    /\ obj.db.temp # {}
    /\ Len(obj.db.FrameLUT) > 1

\* ------------------------------------------- frames and their sources
\* one item of a SourceImageSequence: a referenced instance, its referenced
\* frame numbers, and the SpatialLocationsPreserved attribute
SourceRefs ==
    { [uid |-> u, frames |-> f, slp |-> l] :
        u \in 1..2, f \in {<<1>>, <<1, 2>>}, l \in {"YES", "NO", "ABSENT"} }

\* the source references of one frame: none, one or two
RefLists == UNION { [1..n -> SourceRefs] : n \in 0..2 }

\* a dataset of one segment whose frame j lies at index j and was derived
\* from the references refs[j]; instance 1 is the only instance the dataset
\* lists as referenced
referencing_dataset(refs) ==
    [SegmentSequence |-> <<1>>,
     SegmentationType |-> "FRACTIONAL",
     MaximumFractionalValue |-> 255,
     SegmentsOverlap |-> "NO",
     NumberOfFrames |-> Len(refs),
     DimensionIndexSequence |-> <<SegNumPointer, "ImagePositionPatient">>,
     PerFrame |-> [j \in DOMAIN refs |->
                    [seg |-> 1, DimensionIndexValues |-> <<1, j>>,
                     refs |-> refs[j]]],
     PixelData |-> Flatten([j \in DOMAIN refs |-> [c \in Cols |-> 255]]),
     Referenced |-> <<1>>]

ReferencingDatasets ==
    { referencing_dataset(refs) :
        refs \in UNION { [1..n -> RefLists] : n \in 1..MaxPlanes } }

DecodeReferencing ==
    pc = "start" /\ \E dataset \in ReferencingDatasets : FromDataset(dataset)

\* the two queries that go through the source columns, with and without
\* the overrides
QuerySources ==
    /\ pc = "ready"
    /\ \E ignore \in BOOLEAN, assertMissing \in BOOLEAN :
        \/ GetPixelsBySourceInstance(
                SourceInstanceQuery(<<1>>, FALSE, <<>>, FALSE, FALSE, TRUE,
                                    ignore, assertMissing, FALSE, "None"))
        \/ GetPixelsBySourceFrame(
                SourceFrameQuery(1, <<1>>, FALSE, <<>>, FALSE, FALSE, TRUE,
                                 ignore, assertMissing, FALSE, "None"))

NextReferences == DecodeReferencing \/ QuerySources

SpecReferences == Init /\ [][NextReferences]_vars

\* the distinct source instances and source frames of a stored frame
DistinctInstances(item) == {item.refs[k].uid : k \in DOMAIN item.refs}

DistinctFrames(item) ==
    UNION {Range(item.refs[k].frames) : k \in DOMAIN item.refs}

SomeFrameWithoutSingleSource ==
    \E j \in DOMAIN input.args.PerFrame :
        \/ Cardinality(DistinctInstances(input.args.PerFrame[j])) # 1
        \/ Cardinality(DistinctFrames(input.args.PerFrame[j])) # 1

SourceQueryCalled ==
    call.op \in {"get_pixels_by_source_instance", "get_pixels_by_source_frame"}

\* C12: when some stored frame has no or more than one distinct source
\* reference, the index has no source columns, and
\* get_pixels_by_source_instance and get_pixels_by_source_frame raise
\* RuntimeError whatever the arguments, leave no temporary table and return
\* no array.
C12_NotIndexableBySource ==
    (pc = "ready" /\ DecodeCalled /\ SomeFrameWithoutSingleSource) =>
        /\ ~obj.db.has_source_columns
        /\ SourceQueryCalled =>
            /\ call.err = "RuntimeError"
            /\ call.out = NoArray
            /\ obj.db.temp = {}

C12_Witness ==
    /\ pc = "ready" /\ DecodeCalled /\ SomeFrameWithoutSingleSource
    /\ call.op = "get_pixels_by_source_frame"
    /\ call.q.ignore
    /\ Len(input.args.PerFrame) = 2
    /\ Len(input.args.PerFrame[1].refs) = 1
    /\ Len(input.args.PerFrame[2].refs) = 0
    /\ call.err = "RuntimeError"

\* some frame references an instance the dataset does not list
SomeUnlistedSource ==
    \E j \in DOMAIN input.args.PerFrame :
        DistinctInstances(input.args.PerFrame[j]) \ Range(input.args.Referenced) # {}

\* C13: building the frame index raises AttributeError whenever a frame
\* references a SOP instance UID that is not among the referenced
\* instances, whatever the number of source references of that frame.
C13_UnlistedSourceRejected ==
    (DecodeCalled /\ SomeUnlistedSource) =>
        /\ pc = "failed"
        /\ obj.err = "AttributeError"
        /\ obj.at = "build_luts"

\* the same for the frames the loop does check: those with one distinct
\* source instance and one distinct source frame
SomeUnlistedSingleSource ==
    \E j \in DOMAIN input.args.PerFrame :
        /\ Cardinality(DistinctInstances(input.args.PerFrame[j])) = 1
        /\ Cardinality(DistinctFrames(input.args.PerFrame[j])) = 1
        /\ DistinctInstances(input.args.PerFrame[j]) \ Range(input.args.Referenced) # {}

UnlistedSingleSourceRejected ==
    (DecodeCalled /\ SomeUnlistedSingleSource) =>
        /\ pc = "failed"
        /\ obj.err = "AttributeError"

\* the SpatialLocationsPreserved flags of all source references of all
\* frames
PreservedFlags ==
    UNION { {input.args.PerFrame[j].refs[k].slp :
                k \in DOMAIN input.args.PerFrame[j].refs} :
            j \in DOMAIN input.args.PerFrame }

\* C16: the status computed when the index is built is NO when some source
\* reference says NO, YES when none says NO and every reference there is
\* says YES, and unknown when none says NO and some reference omits the
\* flag.
C16_LocationsPreservedSummary ==
    (pc = "ready" /\ DecodeCalled) =>
        /\ obj.locations_preserved = "NO" <=> "NO" \in PreservedFlags
        /\ obj.locations_preserved = "YES" <=> PreservedFlags \subseteq {"YES"}
        /\ obj.locations_preserved = "NONE" <=>
              ("NO" \notin PreservedFlags /\ "ABSENT" \in PreservedFlags)

C16_Witness ==
    /\ pc = "ready" /\ DecodeCalled
    /\ PreservedFlags = {"YES", "ABSENT"}
    /\ Len(input.args.PerFrame) = 2
    /\ obj.locations_preserved = "NONE"

\* ------------------------------------- the pixel array and the segments
\* the segment descriptions are numbered 1..N, N > 0
WellNumbered == IsOneToN(input.args.segNums) /\ Len(input.args.segNums) > 0

\* a 4D stack of binary masks, one per described segment, of any element
\* type, in which some pixel is set in two segments
OverlappingStack ==
    /\ EncodeCalled /\ WellNumbered
    /\ input.args.pa.ndim = 4
    /\ input.args.pa.ns = Len(input.args.segNums)
    /\ \A x \in PaCells(input.args.pa) :
          input.args.pa.val[x] \in (IF IsFloat(input.args.pa) THEN {0, 2} ELSE {0, 1})
    /\ SomePixelInTwoSegments(input.args.pa)

\* C14: when the LABELMAP type is requested and the segments of the input
\* overlap, the constructor raises ValueError in the pixel array check and
\* no object is produced.
C14_LabelMapForbidsOverlap ==
    (OverlappingStack /\ input.args.segType = "LABELMAP") =>
        /\ pc = "failed"
        /\ obj.err = "ValueError"
        /\ obj.at = "check_and_cast_pixel_array"

C14_Witness ==
    /\ OverlappingStack /\ input.args.segType = "LABELMAP"
    /\ input.args.pa.dtype = "uint8"
    /\ pc = "failed"

MaxPixel(pa) == Max({pa.val[x] : x \in PaCells(pa)})

LabelMapInput ==
    /\ EncodeCalled /\ WellNumbered
    /\ input.args.pa.ndim \in {2, 3}
    /\ input.args.pa.dtype \in {"bool", "uint8"}

RaisedByPixelArrayCheck ==
    pc = "failed" /\ obj.err = "ValueError" /\ obj.at = "check_and_cast_pixel_array"

\* C15: the constructor raises ValueError in the pixel array check when an
\* integer or boolean label map holds a value greater than the number of
\* segment descriptions and when the last axis of a 4D array differs from
\* that number; a label map within the described segments passes the check,
\* and so does a binary 4D stack of as many segments as are described
\* (overlapping segments under LABELMAP aside).
C15_OnlyDescribedSegments ==
    (EncodeCalled /\ WellNumbered) =>
        /\ (LabelMapInput /\ MaxPixel(input.args.pa) > Len(input.args.segNums))
                => RaisedByPixelArrayCheck
        /\ (input.args.pa.ndim = 4 /\ input.args.pa.ns # Len(input.args.segNums))
                => RaisedByPixelArrayCheck
        /\ (LabelMapInput /\ MaxPixel(input.args.pa) <= Len(input.args.segNums))
                => obj.at # "check_and_cast_pixel_array"
        /\ (/\ input.args.pa.ndim = 4
            /\ input.args.pa.dtype \in {"bool", "uint8"}
            /\ input.args.pa.ns = Len(input.args.segNums)
            /\ MaxPixel(input.args.pa) <= 1
            /\ ~(OverlappingStack /\ input.args.segType = "LABELMAP"))
                => obj.at # "check_and_cast_pixel_array"

C15_Witness ==
    /\ LabelMapInput
    /\ input.args.pa.ndim = 3
    /\ Len(input.args.segNums) = 1
    /\ MaxPixel(input.args.pa) = 2
    /\ RaisedByPixelArrayCheck

C15_WitnessStack ==
    /\ EncodeCalled /\ WellNumbered
    /\ input.args.pa.ndim = 4 /\ input.args.pa.ns = 1
    /\ Len(input.args.segNums) = 2
    /\ RaisedByPixelArrayCheck

\* --------------------------------------------- omission of empty frames
\* masks of every shape, unsigned or floating point (0.5 and 1.0), encoded
\* as BINARY or FRACTIONAL with a small and the largest 8-bit
\* max_fractional_value, derived from a series of single-frame images
OmissionInputs ==
    { SeriesInput(pa, OneToN(n), t, m, omit, "wrap") :
        pa \in UNION { PixelArrays(sh, d, PixelValues(d)) :
                        sh \in Shapes, d \in {"uint8", "float"} },
        n \in 1..MaxSegments, t \in {"BINARY", "FRACTIONAL"}, m \in {1, 255},
        omit \in BOOLEAN }

ConstructForOmission == pc = "start" /\ \E in \in OmissionInputs : Construct(in)

NextOmission == ConstructForOmission

SpecOmission == Init /\ [][NextOmission]_vars

\* the input passed the checks of the arguments and one array serves one
\* segment (a float array without a segment axis describes one segment)
AcceptedMask ==
    /\ EncodeCalled
    /\ obj.at \notin {"max_fractional_value", "check_segment_numbers", "check_and_cast_pixel_array"}
    /\ (IsFloat(input.args.pa) /\ input.args.pa.ndim # 4) => Len(input.args.segNums) = 1

\* segment s of the input has a non-zero pixel in plane p
SegmentInPlane(in, p, s) ==
    \E c \in Cols :
        IF in.pa.ndim = 4 THEN in.pa.val[<<p, c, s>>] # 0
        ELSE IF Len(in.segNums) = 1 THEN in.pa.val[<<p, c>>] # 0
        ELSE in.pa.val[<<p, c>>] = s

\* the object holds a frame of segment s derived from source image p
FrameEmitted(p, s) ==
    \E j \in DOMAIN obj.ds.PerFrame :
        /\ obj.ds.PerFrame[j].seg = s
        /\ Len(obj.ds.PerFrame[j].refs) = 1
        /\ obj.ds.PerFrame[j].refs[1].uid = p

AllZero(pa) == \A x \in PaCells(pa) : pa.val[x] = 0

\* C17: with omit_empty_frames=True a frame is emitted for a segment and a
\* plane exactly when the segment has a non-zero pixel in the plane, unless
\* the whole array is zero, and then a frame is emitted for every segment
\* and plane; the object is produced and has at least one frame.
C17_EmptyFrameOmission ==
    (AcceptedMask /\ input.args.omit) =>
        /\ pc = "ready"
        /\ Len(obj.ds.PerFrame) >= 1
        /\ \A p \in 1..input.args.pa.np, s \in DOMAIN input.args.segNums :
              FrameEmitted(p, s) <=>
                (AllZero(input.args.pa) \/ SegmentInPlane(input.args, p, s))

\* the same for unsigned masks, whose non-zero pixels stay non-zero when
\* they are encoded
OmissionOfUnsignedMasks ==
    (AcceptedMask /\ input.args.omit /\ ~IsFloat(input.args.pa)) =>
        /\ pc = "ready"
        /\ Len(obj.ds.PerFrame) >= 1
        /\ \A p \in 1..input.args.pa.np, s \in DOMAIN input.args.segNums :
              FrameEmitted(p, s) <=>
                (AllZero(input.args.pa) \/ SegmentInPlane(input.args, p, s))

\* every frame was skipped although the array is not empty
C17_NoFrameLeft ==
    /\ AcceptedMask /\ input.args.omit
    /\ ~AllZero(input.args.pa)
    /\ pc = "failed" /\ obj.at = "concatenate"

\* ------------------------------------------------ derivation references
\* single-segment masks placed at plane positions given by the caller, equal
\* to the positions of the source planes or not, in the orientation of the
\* source or another one
PlacementInputs ==
    { [SeriesInput(pa, <<1>>, "BINARY", 255, omit, "wrap") EXCEPT
            !.multiframe = mf, !.planePosGiven = TRUE, !.planePos = pp,
            !.sameOrientation = so] :
        pa \in UNION { PixelArrays(<<3, np, 0>>, "uint8", {1}) : np \in 1..MaxPlanes },
        pp \in UNION { [1..np -> 1..(np + 1)] : np \in 1..MaxPlanes },
        mf \in BOOLEAN, so \in BOOLEAN, omit \in BOOLEAN }

ConstructPlaced == pc = "start" /\ \E in \in PlacementInputs : Construct(in)

NextPlacement == ConstructPlaced

SpecPlacement == Init /\ [][NextPlacement]_vars

\* the frame refers to source plane i, and to nothing else, with
\* SpatialLocationsPreserved = YES
RefersTo(item, i) ==
    /\ Len(item.refs) = 1
    /\ item.refs[1].slp = "YES"
    /\ IF input.args.multiframe
       THEN item.refs[1].uid = 1 /\ item.refs[1].frames = <<i>>
       ELSE item.refs[1].uid = i /\ item.refs[1].frames = <<>>

PlacedObject ==
    /\ pc = "ready" /\ EncodeCalled
    /\ input.args.planePosGiven

\* the planes whose position is that of the frame
PlanesAt(position) ==
    {i \in DOMAIN input.args.planePos : input.args.planePos[i] = position}

\* C18 as stated: every emitted frame refers to its source plane exactly
\* when the position of its plane and the orientation equal those of the
\* corresponding source plane, and has an empty DerivationImageSequence
\* otherwise.
C18_DerivationPerFrame ==
    (PlacedObject /\ ~HasDuplicates(input.args.planePos)) =>
        \A j \in DOMAIN obj.ds.PerFrame :
            \A i \in PlanesAt(obj.ds.PerFrame[j].PlanePositionSequence) :
                IF input.args.planePos[i] = input.args.srcPos[i]
                        /\ input.args.sameOrientation
                THEN RefersTo(obj.ds.PerFrame[j], i)
                ELSE obj.ds.PerFrame[j].refs = <<>>

AllLocationsPreserved ==
    /\ input.args.planePos = input.args.srcPos
    /\ input.args.sameOrientation

\* C18 amended: every emitted frame refers to its source plane when the
\* positions of all planes and the orientation equal those of the source
\* planes; when any plane or the orientation differs, every frame has an
\* empty DerivationImageSequence, the frames of unmoved planes included.
C18_DerivationAllOrNone ==
    PlacedObject =>
        \A j \in DOMAIN obj.ds.PerFrame :
            IF AllLocationsPreserved
            THEN \E i \in PlanesAt(obj.ds.PerFrame[j].PlanePositionSequence) :
                    RefersTo(obj.ds.PerFrame[j], i)
            ELSE obj.ds.PerFrame[j].refs = <<>>

\* one plane is where its source plane is, another is not, and no frame has
\* a reference
C18_Witness ==
    /\ PlacedObject
    /\ input.args.sameOrientation
    /\ Len(input.args.planePos) = 2
    /\ input.args.planePos[1] = input.args.srcPos[1]
    /\ input.args.planePos[2] # input.args.srcPos[2]
    /\ Len(obj.ds.PerFrame) = 2
    /\ \A j \in DOMAIN obj.ds.PerFrame : obj.ds.PerFrame[j].refs = <<>>

C18_WitnessPreserved ==
    /\ PlacedObject /\ AllLocationsPreserved
    /\ Len(obj.ds.PerFrame) = 2
    /\ \A j \in DOMAIN obj.ds.PerFrame : Len(obj.ds.PerFrame[j].refs) = 1

\* ------------------------------------------------------ the index scans
\* "with self._db_man.iterate_indices_by_...(...) as indices": the scan run
\* for itself, its triplets read, and the block left without an exception.
\* kind names the scan; keys are UIDs, frame numbers or tuples of index
\* values.
scan_of(db, kind, keys, segment_numbers, combine_segments, relabel) ==
    IF kind = "iterate_indices_by_source_instance"
    THEN iterate_indices(db, "TemporarySOPInstanceUIDs", keys, TRUE,
            [i \in DOMAIN db.FrameLUT |-> db.FrameLUT[i].ReferencedSOPInstanceUID],
            segment_numbers, combine_segments, relabel)
    ELSE IF kind = "iterate_indices_by_source_frame"
    THEN iterate_indices(db, "TemporaryFrameNumbers", keys, TRUE,
            [i \in DOMAIN db.FrameLUT |-> db.FrameLUT[i].ReferencedFrameNumber],
            segment_numbers, combine_segments, relabel)
    ELSE iterate_indices(db, "TemporaryDimensionIndexValues", keys, FALSE,
            [i \in DOMAIN db.FrameLUT |-> db.FrameLUT[i].DimensionIndexValues],
            segment_numbers, combine_segments, relabel)

IterateIndices(kind, source_sop_instance_uid, keys, segment_numbers, combine_segments, relabel) ==
    /\ pc = "ready"
    /\ nq < MaxScans
    /\ \E r \in {scan_of(obj.db, kind, keys, segment_numbers, combine_segments, relabel)} :
           /\ call' = [op |-> kind,
                       q |-> [uid |-> source_sop_instance_uid, keys |-> keys,
                              segs |-> segment_numbers,
                              combine |-> combine_segments, relabel |-> relabel],
                       err |-> r.err, out |-> r.indices, before |-> obj.db.temp]
           /\ obj' = [obj EXCEPT !.db = database_after(obj.db,
                            IF r.err = "ok" THEN obj.db.temp ELSE r.temp)]
    /\ nq' = nq + 1
    /\ UNCHANGED <<pc, input>>

\* stacks of MaxSegments binary segments over MaxPlanes planes, with and
\* without omission of the empty frames, derived from a series or from the
\* frames of one multi-frame image
ScanInputs ==
    { [SeriesInput(pa, OneToN(MaxSegments), "BINARY", 255, omit, "wrap") EXCEPT !.multiframe = mf] :
        pa \in PixelArrays(<<4, MaxPlanes, MaxSegments>>, "uint8", {1}),
        mf \in BOOLEAN, omit \in BOOLEAN }

ConstructForScan == pc = "start" /\ \E in \in ScanInputs : Construct(in)

ScanAny ==
    /\ pc = "ready"
    /\ \E keys \in KeyLists, segs \in SegLists, mode \in BOOLEAN :
        \/ IterateIndices("iterate_indices_by_source_instance", 1, keys, segs, mode, mode)
        \/ IterateIndices("iterate_indices_by_source_frame", 1, keys, segs, mode, mode)
        \/ IterateIndices("iterate_indices_by_dimension_index_values", 1,
                          [k \in DOMAIN keys |-> <<keys[k]>>], segs, mode, mode)

NextScans == ConstructForScan \/ ScanAny

SpecScans == Init /\ [][NextScans]_vars

\* the key under which the dataset stores frame f, for the scan called
StoredKey(f) ==
    IF call.op = "iterate_indices_by_source_instance"
    THEN obj.ds.PerFrame[f].refs[1].uid
    ELSE IF call.op = "iterate_indices_by_source_frame"
    THEN (IF obj.ds.PerFrame[f].refs[1].frames = <<>> THEN NO_FRAME_REF_VALUE
          ELSE obj.ds.PerFrame[f].refs[1].frames[1])
    ELSE <<obj.ds.PerFrame[f].DimensionIndexValues[2]>>

ScanCalled ==
    /\ pc = "ready"
    /\ call.op \in {"iterate_indices_by_source_instance", "iterate_indices_by_source_frame", "iterate_indices_by_dimension_index_values"}

\* distinct requested keys and segments, a key that is unique per segment,
\* and an index without leftover tables
ScanWithUniqueKey ==
    /\ ScanCalled
    /\ call.before = {}
    /\ ~HasDuplicates(call.q.keys)
    /\ ~HasDuplicates(call.q.segs)
    /\ \A f, g \in DOMAIN obj.ds.PerFrame :
          (StoredKey(f) = StoredKey(g) /\ obj.ds.PerFrame[f].seg = obj.ds.PerFrame[g].seg)
                => f = g

\* the output segment number of the requested segment at position j
OutputSegmentNumber(j) ==
    IF ~call.q.combine THEN j - 1
    ELSE IF call.q.relabel THEN j ELSE call.q.segs[j]

ExpectedTriplets ==
    { [fo |-> t[1] - 1, fi |-> t[3] - 1, seg_n |-> OutputSegmentNumber(t[2])] :
        t \in { u \in (DOMAIN call.q.keys) \X (DOMAIN call.q.segs) \X (DOMAIN obj.ds.PerFrame) :
                    /\ StoredKey(u[3]) = call.q.keys[u[1]]
                    /\ obj.ds.PerFrame[u[3]].seg = call.q.segs[u[2]] } }

\* C19: with distinct requested keys and a key that is unique per segment,
\* each scan yields one triplet (output frame index, stored frame index,
\* output segment number) for every requested key and requested segment
\* for which a stored frame exists, nothing else, in non-decreasing order of
\* the output frame index.
C19_ScanTriplets ==
    ScanWithUniqueKey =>
        /\ call.err = "ok"
        /\ Range(call.out) = ExpectedTriplets
        /\ Len(call.out) = Cardinality(ExpectedTriplets)
        /\ \A a, b \in DOMAIN call.out : a < b => call.out[a].fo <= call.out[b].fo

C19_Witness ==
    /\ ScanWithUniqueKey
    /\ call.op = "iterate_indices_by_source_frame"
    /\ Len(call.q.keys) = 2
    /\ call.q.keys[1] > call.q.keys[2]
    /\ Len(call.out) >= 2
    /\ Len(call.out) < Len(call.q.keys) * Len(call.q.segs)

\* ------------------------------------------ frames of a source instance
\* get_pixels_by_source_frame called with the UID of the source image, or
\* with a UID the segmentation does not reference
QueryFramesOfInstance ==
    /\ pc = "ready"
    /\ \E uid \in 1..(MaxPlanes + 1), frames \in KeyLists, assertMissing \in BOOLEAN :
        GetPixelsBySourceFrame(
            SourceFrameQuery(uid, frames, FALSE, <<>>, FALSE, FALSE, TRUE,
                             FALSE, assertMissing, FALSE, "None"))

NextSourceFrames == ConstructStack \/ QueryFramesOfInstance

SpecSourceFrames == Init /\ [][NextSourceFrames]_vars

SourceFrameCallReturned ==
    /\ pc = "ready"
    /\ call.op = "get_pixels_by_source_frame"
    /\ call.err = "ok"

\* the stored frames derived from frame number n of the instance uid
FramesDerivedFrom(uid, n) ==
    { f \in DOMAIN obj.ds.PerFrame :
        \E r \in DOMAIN obj.ds.PerFrame[f].refs :
            /\ obj.ds.PerFrame[f].refs[r].uid = uid
            /\ n \in Range(obj.ds.PerFrame[f].refs[r].frames) }

\* C20: get_pixels_by_source_frame returns data only for frames derived from
\* the given source instance: an output frame holds segmentation data only
\* if a stored frame references source_sop_instance_uid and the frame
\* number requested at that position.
C20_OnlyFramesOfGivenInstance ==
    SourceFrameCallReturned =>
        \A x \in DOMAIN call.out.val :
            call.out.val[x] # 0 =>
                FramesDerivedFrom(call.q.uid, call.q.frames[x[1] + 1]) # {}

\* for the UID of the source image the data come from frames derived from
\* the requested frame numbers
ReferencedInstanceFrames ==
    (SourceFrameCallReturned /\ call.q.uid \in Range(obj.ds.Referenced)) =>
        \A x \in DOMAIN call.out.val :
            call.out.val[x] # 0 =>
                FramesDerivedFrom(call.q.uid, call.q.frames[x[1] + 1]) # {}

ReferencedInstanceFramesWitness ==
    /\ SourceFrameCallReturned
    /\ call.q.uid \in Range(obj.ds.Referenced)
    /\ \E x \in DOMAIN call.out.val : call.out.val[x] # 0

\* ------------------------------------------- overlap of combined segments
\* combining queries over stacks whose segments may overlap, with and without
\* the overlap check, the segments requested in any order
QueryOverlapping ==
    /\ pc = "ready"
    /\ \E uids \in Arrangements(1..input.args.nsrc) :
       \E segs \in Arrangements(1..Len(input.args.segNums)) :
       \E relabel \in BOOLEAN, skip \in BOOLEAN :
            GetPixelsBySourceInstance(
                SourceInstanceQuery(uids, TRUE, segs, TRUE, relabel,
                    TRUE, FALSE, FALSE, skip, "None"))

NextOverlap == ConstructSegments \/ QueryOverlapping

SpecOverlap == Init /\ [][NextOverlap]_vars

\* a combining query for distinct sources and distinct described segments on
\* an index without leftover tables
CombiningCall ==
    /\ pc = "ready"
    /\ call.op = "get_pixels_by_source_instance"
    /\ call.q.combine /\ call.q.segsGiven
    /\ call.before = {}
    /\ ~HasDuplicates(call.q.uids) /\ ~HasDuplicates(call.q.segs)
    /\ Range(call.q.uids) \subseteq 1..input.args.nsrc
    /\ Range(call.q.segs) \subseteq 1..Len(input.args.segNums)

\* two requested segments hold the same pixel of a requested plane
RequestedSegmentsOverlap ==
    \E k \in DOMAIN call.q.uids, c \in Cols :
        Cardinality(Holders(call.q.uids[k], c)) >= 2

\* the instructions of the call (the index being as the call found it), and
\* every order in which they may arrive
Instructions ==
    iterate_indices([obj.db EXCEPT !.temp = {}], "TemporarySOPInstanceUIDs", call.q.uids, TRUE,
        [i \in DOMAIN obj.db.FrameLUT |-> obj.db.FrameLUT[i].ReferencedSOPInstanceUID],
        call.q.segs, TRUE, call.q.relabel).indices

Orders(ix) == { [k \in DOMAIN ix |-> ix[pm[k]]] : pm \in Permutations(DOMAIN ix) }

CombinedIn(ix) ==
    combine_loop([x \in (0..(Len(call.q.uids) - 1)) \X Cols |-> 0],
                 stored_frames(obj.ds), ix, 1, call.q.skip)

\* C21: with the overlap check on, a combining query fails with a runtime
\* error when two requested segments hold the same pixel of the same output
\* frame, in whatever order the instructions arrive, and succeeds when no
\* two requested segments do.
C21_OverlapRejected ==
    (CombiningCall /\ ~call.q.skip) =>
        IF RequestedSegmentsOverlap
        THEN /\ call.err = "RuntimeError"
             /\ \A ix \in Orders(Instructions) : CombinedIn(ix).err = "RuntimeError"
        ELSE /\ call.err = "ok"
             /\ \A ix \in Orders(Instructions) : CombinedIn(ix).err = "ok"

C21_Witness ==
    /\ CombiningCall /\ ~call.q.skip
    /\ RequestedSegmentsOverlap
    /\ call.err = "RuntimeError"
    /\ Len(Instructions) >= 3

C21_WitnessDisjoint ==
    /\ CombiningCall /\ ~call.q.skip
    /\ ~RequestedSegmentsOverlap
    /\ call.err = "ok"
    /\ \E x \in DOMAIN call.out.val : call.out.val[x] = 2

\* the output number of the requested segment at position i
OutputNumber(i) == IF call.q.relabel THEN i ELSE call.q.segs[i]

LargestHolder(p, c) ==
    IF Holders(p, c) = {} THEN 0
    ELSE Max({OutputNumber(i) : i \in Holders(p, c)})

\* C22: with the overlap check skipped, every pixel of a combining query is
\* the largest output segment number among the requested segments that hold
\* it, 0 when none does, in whatever order the instructions are processed.
C22_LargestSegmentWins ==
    (CombiningCall /\ call.q.skip) =>
        /\ call.err = "ok"
        /\ \A k \in DOMAIN call.q.uids, c \in Cols :
              call.out.val[<<k - 1, c>>] = LargestHolder(call.q.uids[k], c)
        /\ \A ix \in Orders(Instructions) : CombinedIn(ix).val = call.out.val

\* a pixel held by both segments, the segment requested first relabelled 1
C22_Witness ==
    /\ CombiningCall /\ call.q.skip
    /\ call.err = "ok"
    /\ call.q.relabel /\ call.q.segs = <<2, 1>>
    /\ \E k \in DOMAIN call.q.uids, c \in Cols :
          /\ Cardinality(Holders(call.q.uids[k], c)) = 2
          /\ call.out.val[<<k - 1, c>>] = 2

\* ------------------------------------------------- the dtype of the output
\* the dtype argument of a query
OutputDtypes == {"uint8", "int8", "uint16", "float32", "bool"}

QueryWithDtype ==
    /\ pc = "ready"
    /\ \E dtype \in OutputDtypes, combine \in BOOLEAN, rescale \in BOOLEAN :
            GetPixelsBySourceInstance(
                SourceInstanceQuery(OneToN(input.args.nsrc), FALSE, <<>>,
                    combine, FALSE, rescale, FALSE, FALSE, FALSE, dtype))

NextDtype == ConstructFractional \/ QueryWithDtype

SpecDtype == Init /\ [][NextDtype]_vars

DtypeCallReturned ==
    /\ pc = "ready"
    /\ call.op = "get_pixels_by_source_instance"
    /\ call.q.dtype # "None"
    /\ call.before = {}
    /\ call.err = "ok"

\* the same call without the dtype argument
OutcomeWithoutDtype ==
    get_pixels_by_source_instance([obj EXCEPT !.db.temp = {}],
                                  [call.q EXCEPT !.dtype = "None"])

\* C23: a query given a dtype that cannot hold every value it would place
\* in the output fails; every query that returns holds the values it
\* returns without the dtype argument, none truncated or wrapped around.
C23_DtypeHoldsEveryValue ==
    DtypeCallReturned =>
        /\ OutcomeWithoutDtype.err = "ok"
        /\ call.out.val = OutcomeWithoutDtype.out.val

\* in combined mode the values are segment numbers and the check covers them
CombinedDtypeHoldsEveryValue ==
    (DtypeCallReturned /\ call.q.combine) =>
        /\ OutcomeWithoutDtype.err = "ok"
        /\ call.out.val = OutcomeWithoutDtype.out.val

CombinedDtypeWitness ==
    /\ DtypeCallReturned /\ call.q.combine /\ call.q.dtype = "int8"
    /\ \E x \in DOMAIN call.out.val : call.out.val[x] # 0

\* --------------------------------------------- the unsigned-width selector
\* values around the limits of the three types, as digits [hi, lo]
LowDigits == (0..3) \cup (253..258) \cup (65530..65535)
HighDigits == {0, 1, 2, 65534, 65535, 65536, 65537}

GetUnsignedDtype ==
    \E hi \in HighDigits, lo \in LowDigits :
        /\ call' = [op |-> "_get_unsigned_dtype", max_val |-> [hi |-> hi, lo |-> lo],
                    out |-> get_unsigned_dtype_of([hi |-> hi, lo |-> lo])]
        /\ UNCHANGED <<pc, input, obj, nq>>

NextWidth == GetUnsignedDtype

SpecWidth == Init /\ [][NextWidth]_vars

\* np.iinfo(dtype).max >= max_val
Holds(dtype, max_val) ==
    IF dtype = "uint8" THEN max_val.hi = 0 /\ max_val.lo <= 255
    ELSE IF dtype = "uint16" THEN max_val.hi = 0
    ELSE max_val.hi <= 65535

Narrower(dtype) ==
    IF dtype = "uint32" THEN {"uint8", "uint16"}
    ELSE IF dtype = "uint16" THEN {"uint8"} ELSE {}

\* C24: for every non-negative max_val the selector returns the narrowest of
\* uint8, uint16 and uint32 whose maximum is at least max_val, so the type
\* returned holds max_val.
C24_NarrowestUnsignedType ==
    call.op = "_get_unsigned_dtype" =>
        /\ Holds(call.out, call.max_val)
        /\ \A d \in Narrower(call.out) : ~Holds(d, call.max_val)

\* the same for the values that a 32-bit type can hold
NarrowestTypeBelowLimit ==
    (call.op = "_get_unsigned_dtype" /\ call.max_val.hi <= 65535) =>
        /\ Holds(call.out, call.max_val)
        /\ \A d \in Narrower(call.out) : ~Holds(d, call.max_val)

\* for one digit the selector of the queries is the same function
SelectorsAgree ==
    (call.op = "_get_unsigned_dtype" /\ call.max_val.hi = 0) =>
        call.out = get_unsigned_dtype(call.max_val.lo)

\* ------------------------------------------------- label map encoding
\* a LABELMAP construction with well-numbered descriptions whose pixel array
\* passes _check_and_cast_pixel_array: a label map, or a stack of segments
\* that do not overlap
ValidLabelMapInput ==
    /\ EncodeCalled /\ WellNumbered
    /\ input.args.segType = "LABELMAP"
    /\ ~RaisedByPixelArrayCheck
    /\ obj.at # "check_and_cast_pixel_array"

\* C25: for every valid non-overlapping LABELMAP input the construction
\* succeeds with one frame per retained plane (not one per segment), the
\* pixels being segment numbers, and the object has its frame index.
C25_LabelMapEncoded ==
    ValidLabelMapInput =>
        /\ pc = "ready" /\ obj.err = "ok"
        /\ obj.ds.NumberOfFrames \in 1..input.args.pa.np
        /\ obj.db.number_of_frames = obj.ds.NumberOfFrames

\* the two places where every LABELMAP construction ends
LabelMapConstructionFails ==
    ValidLabelMapInput =>
        /\ pc = "failed"
        /\ IF input.args.pa.ndim = 4
           THEN obj.err = "NameError" /\ obj.at = "combine_segments"
           ELSE obj.err = "UnboundLocalError" /\ obj.at = "get_pffg_item"

\* ------------------------------------------------ the frames of the object
\* stacks of segments placed at plane positions given by the caller, which
\* may name a position twice
FrameInputs ==
    { [SeriesInput(pa, OneToN(pa.ns), t, 255, omit, "wrap") EXCEPT
            !.planePosGiven = TRUE, !.planePos = pp] :
        pa \in UNION { PixelArrays(<<4, np, ns>>, "uint8", {1}) :
                        np \in 1..MaxPlanes, ns \in 1..MaxSegments },
        pp \in UNION { [1..np -> 1..(np + 1)] : np \in 1..MaxPlanes },
        t \in {"BINARY", "FRACTIONAL"}, omit \in BOOLEAN }

ConstructFrames == pc = "start" /\ \E in \in FrameInputs : Construct(in)

NextFrames == ConstructFrames

SpecFrames == Init /\ [][NextFrames]_vars

EveryFrameKept ==
    /\ pc = "ready" /\ EncodeCalled
    /\ ~input.args.omit
    /\ input.args.segType \in {"BINARY", "FRACTIONAL"}

\* one frame per segment and plane, segment by segment, the planes of a
\* segment in ascending order of position
OneFramePerSegmentAndPlane ==
    /\ obj.ds.NumberOfFrames = Len(input.args.segNums) * input.args.pa.np
    /\ Len(obj.ds.PerFrame) = obj.ds.NumberOfFrames
    /\ \A j \in DOMAIN obj.ds.PerFrame :
          obj.ds.PerFrame[j].seg = ((j - 1) \div input.args.pa.np) + 1
    /\ \A j, k \in DOMAIN obj.ds.PerFrame :
          (j < k /\ obj.ds.PerFrame[j].seg = obj.ds.PerFrame[k].seg)
            => obj.ds.PerFrame[j].PlanePositionSequence
                    < obj.ds.PerFrame[k].PlanePositionSequence

\* C26: with omit_empty_frames = False and a BINARY or FRACTIONAL type the
\* object holds one frame for every described segment and input plane:
\* NumberOfFrames is the number of segments times the first axis of
\* pixel_array, stored segment by segment with the planes in position order.
C26_OneFramePerSegmentAndPlane ==
    EveryFrameKept => OneFramePerSegmentAndPlane

\* the same when no two planes are at the same position
FramesOfDistinctPlanes ==
    (EveryFrameKept /\ ~HasDuplicates(input.args.planePos))
        => OneFramePerSegmentAndPlane

FramesOfDistinctPlanesWitness ==
    /\ EveryFrameKept /\ ~HasDuplicates(input.args.planePos)
    /\ obj.ds.NumberOfFrames = 4
    /\ input.args.planePos[1] > input.args.planePos[2]

\* --------------------------------------- stored values and the input array
\* unsigned and floating-point (0.5 and 1.0) arrays of every shape, encoded
\* as BINARY or FRACTIONAL with values of max_fractional_value around the
\* limit
StoredInputs ==
    { SeriesInput(pa, OneToN(IF pa.ndim = 4 THEN pa.ns ELSE 1), t, m, omit, cm) :
        pa \in UNION { PixelArrays(sh, d, PixelValues(d)) :
                        sh \in Shapes, d \in {"uint8", "float"} },
        t \in {"BINARY", "FRACTIONAL"}, m \in FractionalMaxima,
        omit \in BOOLEAN, cm \in {"wrap", "saturate"} }

\* Segmentation(...), the caller keeping its array: call.pixel_array holds
\* the values of the array after the call
ConstructAndKeep(in) ==
    /\ pc = "start"
    /\ \E r \in {Encode(in)} :
           /\ pc' = IF r.err = "ok" THEN "ready" ELSE "failed"
           /\ obj' = r
           /\ call' = [op |-> "Segmentation",
                       pixel_array |-> pixel_array_after(in, r)]
    /\ input' = [kind |-> "encode", args |-> in]
    /\ UNCHANGED nq

ConstructStored == pc = "start" /\ \E in \in StoredInputs : ConstructAndKeep(in)

NextStored == ConstructStored

SpecStored == Init /\ [][NextStored]_vars

\* a FRACTIONAL object with every frame kept
FractionalStored ==
    /\ pc = "ready" /\ EncodeCalled
    /\ input.args.segType = "FRACTIONAL"
    /\ ~input.args.omit

\* the stored value of pixel (p, c) of segment s
StoredValue(p, c, s) ==
    stored_frames(obj.ds)[(s - 1) * input.args.pa.np + p][c]

\* the value of the input there: halves for floats, 0 or 1 otherwise
InputValue(p, c, s) ==
    IF input.args.pa.ndim = 4 THEN input.args.pa.val[<<p, c, s>>]
    ELSE input.args.pa.val[<<p, c>>]

StoredAsScaled ==
    \A p \in 1..input.args.pa.np, c \in Cols, s \in DOMAIN input.args.segNums :
        StoredValue(p, c, s) =
            IF IsFloat(input.args.pa)
            THEN AroundHalves(InputValue(p, c, s) * input.args.maxFrac)
            ELSE InputValue(p, c, s) * input.args.maxFrac

\* C27: the constructor accepts max_fractional_value only when it fits the
\* 8-bit pixel, and for every accepted M a pixel of 1.0 or a binary 1 is
\* stored as M and a pixel x as round(x * M), never wrapped around.
C27_FractionalValueFits ==
    FractionalStored =>
        /\ input.args.maxFrac <= 255
        /\ StoredAsScaled

\* the same for the values of M up to 255
StoredBelowLimit ==
    (FractionalStored /\ input.args.maxFrac <= 255) => StoredAsScaled

StoredBelowLimitWitness ==
    /\ FractionalStored /\ input.args.maxFrac = 255
    /\ \E p \in 1..input.args.pa.np, c \in Cols, s \in DOMAIN input.args.segNums :
          StoredValue(p, c, s) = 128

\* C29: when the constructor is left, having succeeded or failed, every
\* element of the caller's pixel_array has the value it had before the call.
C29_InputArrayUnchanged ==
    call.op = "Segmentation" => call.pixel_array = input.args.pa.val

\* the array is unchanged except for unsigned 8-bit input encoded as
\* FRACTIONAL with max_fractional_value other than 1
InputArrayUnchangedOtherwise ==
    (/\ call.op = "Segmentation"
     /\ ~(/\ input.args.pa.dtype = "uint8"
          /\ input.args.segType = "FRACTIONAL"
          /\ input.args.maxFrac # 1))
        => call.pixel_array = input.args.pa.val

\* ------------------------------------------------- the encoded PixelData
\* the flattened pixels of the frames of an object: bits of a BINARY
\* segmentation, 8-bit values of a FRACTIONAL one, in any number
FlatPixels(segmentation_type) ==
    UNION { [1..n -> IF segmentation_type = "BINARY" THEN {0, 1} ELSE {0, 1, 255}] :
                n \in 1..MaxPixels }

\* "self.PixelData = self._encode_pixels(np.concatenate(full_frames_list))"
\* and the trailing byte
EncodePixelData ==
    \E segmentation_type \in {"BINARY", "FRACTIONAL"} :
    \E planes \in FlatPixels(segmentation_type) :
        /\ call' = [op |-> "PixelData", segmentation_type |-> segmentation_type,
                    planes |-> planes,
                    encoded |-> encode_pixels(segmentation_type, planes),
                    PixelData |-> pad_pixel_data(encode_pixels(segmentation_type, planes))]
        /\ UNCHANGED <<pc, input, obj, nq>>

NextPixelData == EncodePixelData

SpecPixelData == Init /\ [][NextPixelData]_vars

\* C28: PixelData has an even number of bytes, and the byte appended when
\* padding is needed is a null byte.
C28_EvenLengthNullPadding ==
    call.op = "PixelData" =>
        /\ Len(call.PixelData) % 2 = 0
        /\ Len(call.PixelData) > Len(call.encoded) =>
              /\ Len(call.PixelData) = Len(call.encoded) + 1
              /\ call.PixelData[Len(call.PixelData)] = 0

\* the length is even, and the encoded pixels are kept
PixelDataEven ==
    call.op = "PixelData" =>
        /\ Len(call.PixelData) % 2 = 0
        /\ SubSeq(call.PixelData, 1, Len(call.encoded)) = call.encoded

\* --------------------------------------------- the overlap classification
\* a 4D input of at least two segments whose overlap was classified
MultiSegmentClassified ==
    /\ EncodeCalled /\ WellNumbered
    /\ OverlapRecorded
    /\ input.args.pa.ndim = 4 /\ input.args.pa.ns >= 2

\* every value is 0 or 1 (0.0 or 1.0)
BinaryValued(pa) ==
    \A x \in PaCells(pa) : pa.val[x] \in (IF IsFloat(pa) THEN {0, 2} ELSE {0, 1})

ByPixelSum(pa) == IF SomePixelInTwoSegments(pa) THEN "YES" ELSE "NO"

\* C30 as stated: the classification is UNDEFINED exactly when the input is
\* a multi-segment floating-point array holding a value strictly between 0
\* and 1, and a multi-segment array of 0 and 1 is YES or NO by the pixel
\* sum, whatever its element type and the segmentation type.
C30_UndefinedIffFractionalValue ==
    /\ (EncodeCalled /\ WellNumbered /\ OverlapRecorded) =>
          (obj.SegmentsOverlap = "UNDEFINED" <=>
                /\ input.args.pa.ndim = 4 /\ input.args.pa.ns >= 2
                /\ IsFloat(input.args.pa)
                /\ ~BinaryValued(input.args.pa))
    /\ (MultiSegmentClassified /\ BinaryValued(input.args.pa)) =>
          obj.SegmentsOverlap = ByPixelSum(input.args.pa)

\* C30 amended: the classification is UNDEFINED exactly when the input is a
\* multi-segment floating-point array encoded as FRACTIONAL, whatever its
\* values; any other multi-segment array of 0 and 1 is YES or NO by the
\* pixel sum.
C30_UndefinedIffFractionalType ==
    /\ (EncodeCalled /\ WellNumbered /\ OverlapRecorded) =>
          (obj.SegmentsOverlap = "UNDEFINED" <=>
                /\ input.args.pa.ndim = 4 /\ input.args.pa.ns >= 2
                /\ IsFloat(input.args.pa)
                /\ input.args.segType = "FRACTIONAL")
    /\ (/\ MultiSegmentClassified /\ BinaryValued(input.args.pa)
        /\ ~(IsFloat(input.args.pa) /\ input.args.segType = "FRACTIONAL")) =>
          obj.SegmentsOverlap = ByPixelSum(input.args.pa)

\* a stack of two float segments of 0.0 and 1.0 that do not overlap, encoded
\* as FRACTIONAL and classified UNDEFINED
C30_Witness ==
    /\ MultiSegmentClassified
    /\ IsFloat(input.args.pa) /\ input.args.segType = "FRACTIONAL"
    /\ BinaryValued(input.args.pa)
    /\ \E x \in PaCells(input.args.pa) : input.args.pa.val[x] = 2
    /\ ~SomePixelInTwoSegments(input.args.pa)
    /\ obj.SegmentsOverlap = "UNDEFINED"
    /\ pc = "ready"

C30_WitnessBySum ==
    /\ MultiSegmentClassified
    /\ IsFloat(input.args.pa) /\ input.args.segType = "BINARY"
    /\ obj.SegmentsOverlap = "YES"

====
